---- MODULE Spec2Model ----
(***************************************************************************)
(* Model of the WhatsApp transcript parser, src/utils/parser.ts.           *)
(*                                                                         *)
(* A string is a sequence of characters; a character is a one-element      *)
(* TLA+ string, except the characters that cannot be written in a module:  *)
(*   "LRM" = U+200E, "RLM" = U+200F, "NBSP" = U+00A0,                      *)
(*   "o_uml" = o-umlaut, "u_uml" = u-umlaut, "g_breve", "s_ced" and their  *)
(*   capitals "O_uml", "U_uml", "G_breve", "S_ced".                        *)
(* null / undefined of a nullable value v are <<>>, a present value <<v>>. *)
(***************************************************************************)
EXTENDS Integers, Sequences, FiniteSets, TLC

(***************************************************************************)
(* Character classes and string primitives of the JavaScript runtime.      *)
(***************************************************************************)
Digits == <<"0", "1", "2", "3", "4", "5", "6", "7", "8", "9">>

DigitSet == {Digits[k] : k \in 1..10}

LowerSeq == <<"a","b","c","d","e","f","g","h","i","j","k","l","m","n","o","p","q","r","s","t","u","v","w","x","y","z">>

UpperSeq == <<"A","B","C","D","E","F","G","H","I","J","K","L","M","N","O","P","Q","R","S","T","U","V","W","X","Y","Z">>

LowerLetters == {LowerSeq[k] : k \in 1..26}

UpperLetters == {UpperSeq[k] : k \in 1..26}

\* \s of a regular expression and the characters String.prototype.trim removes
WhiteSpace == {" ", "\t", "\r", "\n", "NBSP"}

\* the characters "." of a regular expression does not match
LineTerminators == {"\n", "\r"}

\* the class of line 39: U+200E and U+200F
BidiMarks == {"LRM", "RLM"}

IsDigit(c) == c \in DigitSet

IsSpace(c) == c \in WhiteSpace

\* String.prototype.toLowerCase, one character
LowerChar(c) ==
    IF c \in UpperLetters THEN LowerSeq[CHOOSE k \in 1..26 : UpperSeq[k] = c]
    ELSE CASE c = "O_uml" -> "o_uml" [] c = "U_uml" -> "u_uml"
           [] c = "G_breve" -> "g_breve" [] c = "S_ced" -> "s_ced"
           [] OTHER -> c

\* String.prototype.toLowerCase
ToLowerCase(s) == [k \in 1..Len(s) |-> LowerChar(s[k])]

\* s.replace(/[U+200E U+200F]/g, '')
RemoveBidi(s) == SelectSeq(s, LAMBDA c : c \notin BidiMarks)

\* String.prototype.trim
Trim(s) ==
    LET keep == {k \in 1..Len(s) : ~IsSpace(s[k])}
    IN  IF keep = {} THEN <<>>
        ELSE LET first == CHOOSE k \in keep : \A j \in keep : k <= j
                 last  == CHOOSE k \in keep : \A j \in keep : j <= k
             IN  SubSeq(s, first, last)

\* String.prototype.includes
Includes(s, sub) ==
    \E k \in 1..(Len(s) - Len(sub) + 1) : SubSeq(s, k, k + Len(sub) - 1) = sub

\* s matches the literal lit at position p (1-based), ignoring case when ci
LitAt(s, p, lit, ci) ==
    /\ p >= 1
    /\ p + Len(lit) - 1 <= Len(s)
    /\ \A k \in 1..Len(lit) :
          IF ci THEN LowerChar(s[p + k - 1]) = LowerChar(lit[k])
                ELSE s[p + k - 1] = lit[k]

\* String.prototype.split with a one-character separator
RECURSIVE Split(_, _)
Split(s, sep) ==
    LET hits == {k \in 1..Len(s) : s[k] = sep}
    IN  IF hits = {} THEN <<s>>
        ELSE LET k == CHOOSE h \in hits : \A j \in hits : h <= j
             IN  <<SubSeq(s, 1, k - 1)>> \o Split(SubSeq(s, k + 1, Len(s)), sep)

\* the length of the run of decimal digits of s that starts at position p
RECURSIVE DigitRun(_, _)
DigitRun(s, p) ==
    IF p <= Len(s) /\ IsDigit(s[p]) THEN 1 + DigitRun(s, p + 1) ELSE 0

\* the length of the run of white space of s that starts at position p
RECURSIVE SpaceRun(_, _)
SpaceRun(s, p) ==
    IF p <= Len(s) /\ IsSpace(s[p]) THEN 1 + SpaceRun(s, p + 1) ELSE 0

\* the value of a decimal digit
DigitVal(c) == (CHOOSE k \in 1..10 : Digits[k] = c) - 1

\* Number(s) and parseInt(s, 10) agree on a string of decimal digits
RECURSIVE DigitsValue(_)
DigitsValue(s) ==
    IF s = <<>> THEN 0
    ELSE 10 * DigitsValue(SubSeq(s, 1, Len(s) - 1)) + DigitVal(s[Len(s)])

\* NaN and undefined among numbers: every number the parser reads is >= 0
NaN == 0 - 1

Undefined == 0 - 2

\* Number(s): NaN for a string that is not a decimal literal, 0 for ''
ToNumber(s) ==
    IF \A k \in 1..Len(s) : IsDigit(s[k]) THEN DigitsValue(s) ELSE NaN

(***************************************************************************)
(* msgStartRegex, line 28: "[", a date token of three digit groups (1-2,   *)
(* 1-2 and 2-4 digits) separated by "." or "/", white space, an optional   *)
(* marker, optional white space, a time token h:mm:ss (1-2 digit hour),    *)
(* "]", white space, the shortest sender up to a colon followed by white   *)
(* space, and the rest of the line as content.                             *)
(* Every quantifier of the pattern is followed by a character its own      *)
(* class excludes, so a match, when there is one, takes each run whole.    *)
(***************************************************************************)
\* the alternatives of the AM/PM group, in the pattern's order
Markers == << <<"O_uml", "O_uml">>, <<"O_uml", "S">>, <<"A", "M">>, <<"P", "M">> >>

DateSeparators == {".", "/"}

\* the first position j >= p of s with s[j] = ":" followed by white space,
\* reached over characters "." matches; 0 when there is none
RECURSIVE ColonSpaceFrom(_, _)
ColonSpaceFrom(s, p) ==
    IF p + 1 > Len(s) THEN 0
    ELSE IF s[p] = ":" /\ IsSpace(s[p + 1]) THEN p
    ELSE IF s[p] \in LineTerminators THEN 0
    ELSE ColonSpaceFrom(s, p + 1)

\* the length of the run of characters "." matches that starts at position p
RECURSIVE DotRun(_, _)
DotRun(s, p) ==
    IF p <= Len(s) /\ s[p] \notin LineTerminators THEN 1 + DotRun(s, p + 1) ELSE 0

\* line.match(msgStartRegex): <<>> for null, else the five captured groups
MsgStartMatch(line) ==
    LET n  == Len(line)
        a1 == DigitRun(line, 2)
        p1 == 2 + a1
        a2 == DigitRun(line, p1 + 1)
        p2 == p1 + 1 + a2
        a3 == DigitRun(line, p2 + 1)
        p3 == p2 + 1 + a3
        w1 == SpaceRun(line, p3)
        p4 == p3 + w1
        mk == {k \in 1..Len(Markers) : LitAt(line, p4, Markers[k], FALSE)}
        p5 == IF mk = {} THEN p4 ELSE p4 + 2 + SpaceRun(line, p4 + 2)
        h  == DigitRun(line, p5)
        p6 == p5 + h
        p7 == p6 + 6
        w2 == SpaceRun(line, p7 + 1)
        p8 == p7 + 1 + w2
        j  == ColonSpaceFrom(line, p8)
        w3 == SpaceRun(line, j + 1)
        p9 == j + 1 + w3
    IN  IF /\ n >= 1 /\ line[1] = "["
           /\ a1 \in 1..2 /\ p1 <= n /\ line[p1] \in DateSeparators
           /\ a2 \in 1..2 /\ p2 <= n /\ line[p2] \in DateSeparators
           /\ a3 \in 2..4
           /\ w1 >= 1
           /\ h \in 1..2
           /\ p7 <= n
           /\ line[p6] = ":" /\ DigitRun(line, p6 + 1) = 2
           /\ line[p6 + 3] = ":" /\ DigitRun(line, p6 + 4) = 2
           /\ line[p7] = "]"
           /\ w2 >= 1
           /\ j > 0
        THEN << [dateStr       |-> SubSeq(line, 2, p3 - 1),
                 amPm          |-> IF mk = {} THEN <<>>
                                   ELSE <<Markers[CHOOSE k \in mk : TRUE]>>,
                 timeStr       |-> SubSeq(line, p5, p7 - 1),
                 senderNameRaw |-> SubSeq(line, p8, j - 1),
                 contentStart  |-> SubSeq(line, p9, p9 + DotRun(line, p9) - 1)] >>
        ELSE <<>>

(***************************************************************************)
(* attachmentRegexOld and attachmentRegexNew, lines 33-34: a file name of  *)
(* one or more characters of the class a-z A-Z 0-9 _ - . and white space,  *)
(* a dot and one of nine extensions, then white space and the closing      *)
(* words; the new form opens with "<". Both ignore case and match at the   *)
(* leftmost position, the class taking as many characters as it can.       *)
(***************************************************************************)
FileNameClass == LowerLetters \cup UpperLetters \cup DigitSet \cup {"_", "-", "."} \cup WhiteSpace

\* the alternatives of the extension group, in the pattern's order
Extensions ==
    << <<"j", "p", "g">>,
       <<"j", "p", "e", "g">>,
       <<"p", "n", "g">>,
       <<"m", "p", "4">>,
       <<"o", "p", "u", "s">>,
       <<"m", "p", "3">>,
       <<"p", "d", "f">>,
       <<"w", "e", "b", "p">>,
       <<"m", "o", "v">> >>

\* "(file attached)" and "(dosya eklendi)"
OldTails ==
    << <<"(", "f", "i", "l", "e", " ", "a", "t", "t", "a", "c", "h", "e", "d", ")">>,
       <<"(", "d", "o", "s", "y", "a", " ", "e", "k", "l", "e", "n", "d", "i", ")">> >>

\* "eklendi>"
NewTails == << <<"e", "k", "l", "e", "n", "d", "i", ">">> >>

\* the length of the run of file-name characters that starts at position p
RECURSIVE ClassRun(_, _)
ClassRun(s, p) ==
    IF p <= Len(s) /\ s[p] \in FileNameClass THEN 1 + ClassRun(s, p + 1) ELSE 0

\* the extension (its index) with which the rest of the pattern matches when
\* the class ends at position e: a dot, the extension, white space, a tail
ExtsAt(s, e, tails) ==
    {x \in 1..Len(Extensions) :
        /\ e + 1 <= Len(s) /\ s[e + 1] = "."
        /\ LitAt(s, e + 2, Extensions[x], TRUE)
        /\ LET q == e + 2 + Len(Extensions[x])
               w == SpaceRun(s, q)
           IN  w >= 1 /\ \E k \in 1..Len(tails) : LitAt(s, q + w, tails[k], TRUE)}

\* s.match(regex)[1], <<>> when the match is null: angle selects the new form
AttachMatch(s, tails, angle) ==
    LET starts == {b \in 1..Len(s) :
                      /\ angle => (b >= 2 /\ s[b - 1] = "<")
                      /\ \E e \in b..(b + ClassRun(s, b) - 1) : ExtsAt(s, e, tails) # {}}
    IN  IF starts = {} THEN <<>>
        ELSE LET b    == CHOOSE x \in starts : \A y \in starts : x <= y
                 ends == {e \in b..(b + ClassRun(s, b) - 1) : ExtsAt(s, e, tails) # {}}
                 e    == CHOOSE x \in ends : \A y \in ends : y <= x
                 xs   == ExtsAt(s, e, tails)
                 x    == CHOOSE k \in xs : \A y \in xs : k <= y
             IN  << SubSeq(s, b, e + 1 + Len(Extensions[x])) >>

AttachMatchOld(s) == AttachMatch(s, OldTails, FALSE)

AttachMatchNew(s) == AttachMatch(s, NewTails, TRUE)

(***************************************************************************)
(* Classification of the content of a start line, lines 77-103.            *)
(***************************************************************************)
\* the phrases of lines 82-86 in the order they are tested, and their types
SystemPhrases ==
    << [phrase |-> <<"g", "o_uml", "r", "u_uml", "n", "t", "u_uml", " ", "d", "a", "h", "i", "l", " ", "e", "d", "i", "l", "m", "e", "d", "i">>,
        type   |-> "image"],
       [phrase |-> <<"s", "e", "s", " ", "d", "a", "h", "i", "l", " ", "e", "d", "i", "l", "m", "e", "d", "i">>,
        type   |-> "audio"],
       [phrase |-> <<"g", "u_uml", "v", "e", "n", "l", "i", "k", " ", "k", "o", "d", "u", " ", "d", "e", "g_breve", "i", "s_ced", "t", "i">>,
        type   |-> "system"],
       [phrase |-> <<"g", "o_uml", "r", "u_uml", "n", "t", "u_uml", "l", "u_uml", " ", "a", "r", "a", "m", "a">>,
        type   |-> "system"],
       [phrase |-> <<"s", "e", "s", "l", "i", " ", "a", "r", "a", "m", "a">>,
        type   |-> "system"] >>

\* PhraseType with the tests of lines 82-86 in the reverse order
PhraseTypeLastWins(contentStart) ==
    LET lowerContent == ToLowerCase(contentStart)
        hits == {k \in 1..Len(SystemPhrases) : Includes(lowerContent, SystemPhrases[k].phrase)}
    IN  IF hits = {} THEN "text"
        ELSE SystemPhrases[CHOOSE k \in hits : \A j \in hits : j <= k].type

\* lines 77 and 81-86: the type of the first phrase the lower-cased content holds
PhraseType(contentStart) ==
    LET lowerContent == ToLowerCase(contentStart)
        hits == {k \in 1..Len(SystemPhrases) : Includes(lowerContent, SystemPhrases[k].phrase)}
    IN  IF hits = {} THEN "text"
        ELSE SystemPhrases[CHOOSE k \in hits : \A j \in hits : k <= j].type

\* AttachmentFileName with the two tests of lines 92-96 exchanged
AttachmentFileNameOldFirst(contentStart) ==
    LET attachMatchNew == AttachMatchNew(contentStart)
        attachMatchOld == AttachMatchOld(contentStart)
    IN  IF attachMatchOld # <<>> THEN attachMatchOld
        ELSE IF attachMatchNew # <<>> THEN attachMatchNew
        ELSE <<>>

\* lines 89-96: the angle-bracket capture, else the parenthetical one
AttachmentFileName(contentStart) ==
    LET attachMatchNew == AttachMatchNew(contentStart)
        attachMatchOld == AttachMatchOld(contentStart)
    IN  IF attachMatchNew # <<>> THEN attachMatchNew
        ELSE IF attachMatchOld # <<>> THEN attachMatchOld
        ELSE <<>>

ImageExts == {<<"j", "p", "g">>, <<"j", "p", "e", "g">>, <<"p", "n", "g">>, <<"w", "e", "b", "p">>}

AudioExts == {<<"o", "p", "u", "s">>, <<"m", "p", "3">>, <<"w", "a", "v">>, <<"a", "a", "c">>, <<"m", "4", "a">>}

VideoExts == {<<"m", "p", "4">>, <<"m", "o", "v">>}

\* ExtensionType that lets a type set by a phrase stand
ExtensionTypeKeepPhrase(type, attachmentFileName) ==
    IF attachmentFileName = <<>> \/ attachmentFileName[1] = <<>> \/ type # "text" THEN type
    ELSE LET parts == Split(attachmentFileName[1], ".")
             ext   == ToLowerCase(parts[Len(parts)])
         IN  IF ext \in ImageExts THEN "image"
             ELSE IF ext \in AudioExts THEN "audio"
             ELSE IF ext \in VideoExts THEN "video"
             ELSE type

\* lines 98-103: the type after the extension of a captured file name
ExtensionType(type, attachmentFileName) ==
    IF attachmentFileName = <<>> \/ attachmentFileName[1] = <<>> THEN type
    ELSE LET parts == Split(attachmentFileName[1], ".")
             ext   == ToLowerCase(parts[Len(parts)])
         IN  IF ext \in ImageExts THEN "image"
             ELSE IF ext \in AudioExts THEN "audio"
             ELSE IF ext \in VideoExts THEN "video"
             ELSE type

\* lines 77-103
MessageType(contentStart) ==
    ExtensionType(PhraseType(contentStart), AttachmentFileName(contentStart))

(***************************************************************************)
(* Date and time of a start line, lines 52-75.                             *)
(***************************************************************************)
IsNumber(x) == x >= 0

\* Number of the k-th piece of a split, undefined past its end (lines 56, 59)
NthNumber(parts, k) == IF k <= Len(parts) THEN ToNumber(parts[k]) ELSE Undefined

\* lines 52-60
ParseDate(dateStr) ==
    IF \E k \in 1..Len(dateStr) : dateStr[k] = "."
    THEN LET parts == Split(dateStr, ".")
         IN  [day   |-> NthNumber(parts, 1),
              month |-> NthNumber(parts, 2),
              year  |-> NthNumber(parts, 3)]
    ELSE LET parts == Split(dateStr, "/")
         IN  [month |-> NthNumber(parts, 1),
              day   |-> NthNumber(parts, 2),
              year  |-> NthNumber(parts, 3)]

PMMarkers == { <<"O_uml", "S">>, <<"P", "M">> }

AMMarkers == { <<"O_uml", "O_uml">>, <<"A", "M">> }

\* NormalizeHours without the two tests on 12
NormalizeHoursNoNoon(hours, amPm) ==
    IF amPm # <<>> /\ amPm[1] \in PMMarkers THEN hours + 12 ELSE hours

\* lines 68-72
NormalizeHours(hours, amPm) ==
    IF amPm # <<>> /\ amPm[1] \in PMMarkers
    THEN IF hours # 12 THEN hours + 12 ELSE hours
    ELSE IF amPm # <<>> /\ amPm[1] \in AMMarkers
    THEN IF hours = 12 THEN 0 ELSE hours
    ELSE hours

\* line 74: a comparison with NaN or undefined is false
FullYear(year) == IF IsNumber(year) /\ year < 100 THEN 2000 + year ELSE year

\* the day number of the first day of month m (1..12) of year y, counted from
\* 1 January 1970 in the proleptic Gregorian calendar
DaysFromCivil(y, m) ==
    LET y2  == IF m <= 2 THEN y - 1 ELSE y
        era == y2 \div 400
        yoe == y2 - era * 400
        mp  == IF m > 2 THEN m - 3 ELSE m + 9
        doy == (153 * mp + 2) \div 5
    IN  era * 146097 + yoe * 365 + yoe \div 4 - yoe \div 100 + doy - 719468

\* A Date: its time value as a day number and the second of that day in local
\* time, or the invalid date, whose time value is NaN
InvalidDate == [valid |-> FALSE, day |-> 0, sec |-> 0]

\* new Date(year, month - 1, day, hours, minutes, seconds) of line 75: fields
\* out of range carry over, and a NaN or undefined field gives the invalid date
MakeTimestamp(year, month, day, hours, minutes, seconds) ==
    IF ~IsNumber(year) \/ ~IsNumber(month) \/ ~IsNumber(day) THEN InvalidDate
    ELSE LET monthIndex == month - 1
             yr == IF year <= 99 THEN 1900 + year ELSE year
             ym == yr + monthIndex \div 12
             mn == monthIndex % 12
             t  == hours * 3600 + minutes * 60 + seconds
         IN  [valid |-> TRUE,
              day   |-> DaysFromCivil(ym, mn + 1) + day - 1 + t \div 86400,
              sec   |-> t % 86400]

\* a.getTime() >= b.getTime() of two valid dates
DateGE(a, b) == a.day > b.day \/ (a.day = b.day /\ a.sec >= b.sec)

\* String(n) of a number n >= 0
RECURSIVE NumberToString(_)
NumberToString(n) ==
    IF n < 10 THEN <<Digits[n + 1]>>
    ELSE NumberToString(n \div 10) \o <<Digits[(n % 10) + 1]>>

(***************************************************************************)
(* getRandomColor, lines 4-15.                                             *)
(***************************************************************************)
colors ==
    << "bg-red-500", "bg-orange-500", "bg-amber-500", "bg-green-500",
       "bg-emerald-500", "bg-teal-500", "bg-cyan-500", "bg-blue-500",
       "bg-indigo-500", "bg-violet-500", "bg-purple-500", "bg-fuchsia-500",
       "bg-pink-500" >>

\* String.prototype.charCodeAt of one character
CharCode(c) ==
    IF c \in UpperLetters THEN 64 + (CHOOSE k \in 1..26 : UpperSeq[k] = c)
    ELSE IF c \in LowerLetters THEN 96 + (CHOOSE k \in 1..26 : LowerSeq[k] = c)
    ELSE IF c \in DigitSet THEN 48 + DigitVal(c)
    ELSE CASE c = " " -> 32 [] c = "\t" -> 9 [] c = "\r" -> 13 [] c = "\n" -> 10
           [] c = "-" -> 45 [] c = "." -> 46 [] c = "/" -> 47 [] c = ":" -> 58
           [] c = "<" -> 60 [] c = ">" -> 62 [] c = "(" -> 40 [] c = ")" -> 41
           [] c = "[" -> 91 [] c = "]" -> 93 [] c = "_" -> 95
           [] c = "NBSP" -> 160 [] c = "LRM" -> 8206 [] c = "RLM" -> 8207
           [] c = "O_uml" -> 214 [] c = "U_uml" -> 220
           [] c = "o_uml" -> 246 [] c = "u_uml" -> 252
           [] c = "G_breve" -> 286 [] c = "g_breve" -> 287
           [] c = "S_ced" -> 350 [] c = "s_ced" -> 351

\* The hash of lines 10-13 is a double that leaves the 32-bit range; it is
\* kept exactly as [hi, lo] with value hi * 65536 + lo and lo in 0..65535.
Word == 65536

Norm(hi, lo) == [hi |-> hi + lo \div Word, lo |-> lo % Word]

\* ToInt32 of the language: the value modulo 2^32 in -2^31 .. 2^31 - 1
ToInt32(h) ==
    LET u == h.hi % Word
    IN  [hi |-> IF u >= Word \div 2 THEN u - Word ELSE u, lo |-> h.lo]

\* hash << 5
ShiftLeft5(hash) ==
    LET x == ToInt32(hash)
    IN  ToInt32(Norm(x.hi * 32, x.lo * 32))

\* name.charCodeAt(i) + ((hash << 5) - hash), line 12
HashStep(code, hash) ==
    LET s == ShiftLeft5(hash)
    IN  Norm(s.hi - hash.hi, s.lo - hash.lo + code)

\* the loop of lines 11-13 from index k (1-based) on
RECURSIVE HashFrom(_, _, _)
HashFrom(name, k, hash) ==
    IF k > Len(name) THEN hash
    ELSE HashFrom(name, k + 1, HashStep(CharCode(name[k]), hash))

\* Math.abs(hash) % n, line 14
AbsMod(hash, n) ==
    IF hash.hi < 0
    THEN (((0 - hash.hi) % n) * (Word % n) - (hash.lo % n)) % n
    ELSE ((hash.hi % n) * (Word % n) + hash.lo) % n

\* lines 4-15
getRandomColor(name) ==
    colors[AbsMod(HashFrom(name, 1, [hi |-> 0, lo |-> 0]), Len(colors)) + 1]

(***************************************************************************)
(* parseChatFile, lines 20-148, one action per iteration of its loop.      *)
(***************************************************************************)
VARIABLES
    src,              \* how the input text was written, one entry per line
    lines,            \* text.split('\n'), line 21
    myName,           \* the parameter myName, <<>> for null
    zipFile,          \* the parameter zipFile, <<>> for null
    i,                \* the loop index of line 38
    currentMessage,   \* line 36, <<>> for null
    messages,         \* line 22
    participantsMap,  \* line 23, its entries in insertion order
    sendersSet,       \* line 24, its elements in insertion order
    locals,           \* the locals of the last iteration that matched, lines 47-103
    pc,               \* "loop" inside the loop of line 38, "done" after the return
    result            \* the value returned at line 147, <<>> before

\* the state of the component App and of one ChatBubble
VARIABLES
    step,             \* App: "UPLOAD", "SELECT_IDENTITY" or "CHAT"
    chatData,         \* App: <<>> for null
    error,            \* App: <<>> for null
    potentialOwners,  \* App
    currentOwner,     \* App
    props,            \* ChatBubble: <<>> while none is mounted, else the
                      \* attachmentFileName and zipFile it was last rendered with
    mediaUrl,         \* ChatBubble: the state mediaUrl, <<>> for null
    loadingMedia,     \* ChatBubble: the state loadingMedia
    effects,          \* ChatBubble: the runs of the effect, each with its flag
                      \* active, the mediaUrl its cleanup sees and its promise
    objectURLs        \* the URLs handed out by URL.createObjectURL and those
                      \* given back to URL.revokeObjectURL

uiVars == <<step, chatData, error, potentialOwners, currentOwner, props, mediaUrl,
            loadingMedia, effects, objectURLs>>

vars == <<src, lines, myName, zipFile, i, currentMessage, messages,
          participantsMap, sendersSet, locals, pc, result, uiVars>>

\* CleanLine without the removal of the bidi marks
CleanLineKeepMarks(raw) == Trim(raw)

\* CleanLine without the trim
CleanLineNoTrim(raw) == RemoveBidi(raw)

\* line 39: the line the iteration works on
CleanLine(raw) == Trim(RemoveBidi(raw))

\* line 105
IsMe(senderName, me) ==
    IF me # <<>> /\ me[1] # <<>> THEN senderName = me[1] ELSE FALSE

\* lines 47-103: the locals of an iteration whose line matched
StartLocals(match) ==
    LET date      == ParseDate(match.dateStr)
        timeParts == Split(match.timeStr, ":")
        hours     == NormalizeHours(DigitsValue(timeParts[1]), match.amPm)
        minutes   == DigitsValue(timeParts[2])
        seconds   == DigitsValue(timeParts[3])
        fullYear  == FullYear(date.year)
    IN  [dateStr    |-> match.dateStr,
         amPm       |-> match.amPm,
         senderName |-> Trim(match.senderNameRaw),
         day        |-> date.day,
         month      |-> date.month,
         year       |-> date.year,
         hours      |-> hours,
         minutesStr |-> timeParts[2],
         fullYear   |-> fullYear,
         timestamp  |-> MakeTimestamp(fullYear, date.month, date.day,
                                      hours, minutes, seconds),
         phraseType |-> PhraseType(match.contentStart),
         attachMatchNew |-> AttachMatchNew(match.contentStart),
         attachMatchOld |-> AttachMatchOld(match.contentStart),
         attachmentFileName |-> AttachmentFileName(match.contentStart),
         type       |-> MessageType(match.contentStart)]

\* NewMessage that numbers every record with the index of the first line
NewMessageOneId(idx, match, loc, me) ==
    [id        |-> <<"m", "s", "g", "-">> \o NumberToString(0),
     rawDate   |-> loc.dateStr \o <<" ">> \o NumberToString(loc.hours)
                     \o <<":">> \o loc.minutesStr,
     timestamp |-> loc.timestamp,
     sender    |-> loc.senderName,
     content   |-> match.contentStart,
     isMe      |-> IsMe(loc.senderName, me),
     isSystem  |-> loc.type = "system",
     type      |-> loc.type,
     attachmentFileName |-> loc.attachmentFileName]

\* lines 107-117
NewMessage(idx, match, loc, me) ==
    [id        |-> <<"m", "s", "g", "-">> \o NumberToString(idx),
     rawDate   |-> loc.dateStr \o <<" ">> \o NumberToString(loc.hours)
                     \o <<":">> \o loc.minutesStr,
     timestamp |-> loc.timestamp,
     sender    |-> loc.senderName,
     content   |-> match.contentStart,
     isMe      |-> IsMe(loc.senderName, me),
     isSystem  |-> loc.type = "system",
     type      |-> loc.type,
     attachmentFileName |-> loc.attachmentFileName]

\* SetAdd that adds an element the set already holds
SetAddAgain(set, x) == Append(set, x)

\* line 49: Set.prototype.add
SetAdd(set, x) ==
    IF \E k \in 1..Len(set) : set[k] = x THEN set ELSE Append(set, x)

\* UpdateParticipants that adds an entry without looking the name up
UpdateParticipantsAlwaysAppend(map, msg) ==
    IF ~msg.isMe /\ msg.type # "system"
    THEN Append(map, [name            |-> msg.sender,
                      lastMessage     |-> msg.content,
                      lastMessageDate |-> msg.timestamp,
                      avatarColor     |-> getRandomColor(msg.sender)])
    ELSE map

\* UpdateParticipants that keeps the entry of a later date
UpdateParticipantsKeepNewest(map, msg) ==
    IF ~msg.isMe /\ msg.type # "system"
    THEN IF ~\E k \in 1..Len(map) : map[k].name = msg.sender
         THEN Append(map, [name            |-> msg.sender,
                           lastMessage     |-> msg.content,
                           lastMessageDate |-> msg.timestamp,
                           avatarColor     |-> getRandomColor(msg.sender)])
         ELSE [k \in 1..Len(map) |->
                 IF map[k].name = msg.sender /\ DateGE(msg.timestamp, map[k].lastMessageDate)
                 THEN [map[k] EXCEPT !.lastMessage = msg.content,
                                     !.lastMessageDate = msg.timestamp]
                 ELSE map[k]]
    ELSE map

\* UpdateParticipants that computes the color again, from the content, when
\* it updates an entry
UpdateParticipantsRecolor(map, msg) ==
    IF ~msg.isMe /\ msg.type # "system"
    THEN IF ~\E k \in 1..Len(map) : map[k].name = msg.sender
         THEN Append(map, [name            |-> msg.sender,
                           lastMessage     |-> msg.content,
                           lastMessageDate |-> msg.timestamp,
                           avatarColor     |-> getRandomColor(msg.sender)])
         ELSE [k \in 1..Len(map) |->
                 IF map[k].name = msg.sender
                 THEN [map[k] EXCEPT !.lastMessage = msg.content,
                                     !.lastMessageDate = msg.timestamp,
                                     !.avatarColor = getRandomColor(msg.content)]
                 ELSE map[k]]
    ELSE map

\* UpdateParticipants without the test on the type
UpdateParticipantsAlsoSystem(map, msg) ==
    IF ~msg.isMe
    THEN IF ~\E k \in 1..Len(map) : map[k].name = msg.sender
         THEN Append(map, [name            |-> msg.sender,
                           lastMessage     |-> msg.content,
                           lastMessageDate |-> msg.timestamp,
                           avatarColor     |-> getRandomColor(msg.sender)])
         ELSE [k \in 1..Len(map) |->
                 IF map[k].name = msg.sender
                 THEN [map[k] EXCEPT !.lastMessage = msg.content,
                                     !.lastMessageDate = msg.timestamp]
                 ELSE map[k]]
    ELSE map

\* lines 119-132
UpdateParticipants(map, msg) ==
    IF ~msg.isMe /\ msg.type # "system"
    THEN IF ~\E k \in 1..Len(map) : map[k].name = msg.sender
         THEN Append(map, [name            |-> msg.sender,
                           lastMessage     |-> msg.content,
                           lastMessageDate |-> msg.timestamp,
                           avatarColor     |-> getRandomColor(msg.sender)])
         ELSE [k \in 1..Len(map) |->
                 IF map[k].name = msg.sender
                 THEN [map[k] EXCEPT !.lastMessage = msg.content,
                                     !.lastMessageDate = msg.timestamp]
                 ELSE map[k]]
    ELSE map

\* x put into the sequence s, sorted by descending date, behind its equals
RECURSIVE InsertDesc(_, _)
InsertDesc(s, x) ==
    IF s = <<>> THEN <<x>>
    ELSE IF DateGE(s[1].lastMessageDate, x.lastMessageDate)
         THEN <<s[1]>> \o InsertDesc(Tail(s), x)
         ELSE <<x>> \o s

\* Array.prototype.sort with the comparator of line 144 is stable
RECURSIVE SortDesc(_)
SortDesc(s) ==
    IF s = <<>> THEN <<>>
    ELSE InsertDesc(SortDesc(SubSeq(s, 1, Len(s) - 1)), s[Len(s)])

\* the orders line 144 can give: with an invalid date the comparator returns
\* NaN, it is not a consistent comparator and any order of the entries can result
SortOutcomes(s) ==
    IF \A k \in 1..Len(s) : s[k].lastMessageDate.valid
    THEN {SortDesc(s)}
    ELSE {[k \in 1..Len(s) |-> s[f[k]]] :
            f \in {g \in [1..Len(s) -> 1..Len(s)] :
                     \A a, b \in 1..Len(s) : a # b => g[a] # g[b]}}

\* AppendLine without the line break
AppendLineNoBreak(content, line) == content \o line

\* line 137
AppendLine(content, line) == content \o <<"\n">> \o line

\* Continue that opens a record for a line read while no message is open
ContinueOrOpen(current, line) ==
    IF current # <<>>
    THEN << [current[1] EXCEPT !.content = AppendLine(@, line)] >>
    ELSE << [id        |-> <<>>,
             rawDate   |-> <<>>,
             timestamp |-> InvalidDate,
             sender    |-> <<>>,
             content   |-> line,
             isMe      |-> FALSE,
             isSystem  |-> FALSE,
             type      |-> "text",
             attachmentFileName |-> <<>>] >>

\* Continue that classifies the open message again from the grown content
ContinueReclassifies(current, line) ==
    IF current # <<>>
    THEN << [current[1] EXCEPT
               !.content  = AppendLine(@, line),
               !.type     = MessageType(AppendLine(current[1].content, line)),
               !.isSystem = MessageType(AppendLine(current[1].content, line)) = "system",
               !.attachmentFileName =
                   AttachmentFileName(AppendLine(current[1].content, line))] >>
    ELSE current

\* lines 136-138: the open message after a line that is no start line
Continue(current, line) ==
    IF current # <<>>
    THEN << [current[1] EXCEPT !.content = AppendLine(@, line)] >>
    ELSE current

\* lines 38-40: a line that is empty after cleaning is skipped
SkipBlank ==
    /\ pc = "loop"
    /\ i < Len(lines)
    /\ CleanLine(lines[i + 1]) = <<>>
    /\ i' = i + 1
    /\ UNCHANGED uiVars
    /\ UNCHANGED <<src, lines, myName, zipFile, currentMessage, messages,
                   participantsMap, sendersSet, locals, pc, result>>

\* StartMessage that opens the new message without the push of the open one
StartMessageDropsOpen ==
    /\ pc = "loop"
    /\ i < Len(lines)
    /\ \E line \in {CleanLine(lines[i + 1])} :
       \E match \in {MsgStartMatch(line)} :
          /\ line # <<>>
          /\ match # <<>>
          /\ \E loc \in {StartLocals(match[1])} :
             \E msg \in {NewMessage(i, match[1], loc, myName)} :
                /\ messages' = messages
                /\ sendersSet' = SetAdd(sendersSet, loc.senderName)
                /\ locals' = <<loc>>
                /\ currentMessage' = <<msg>>
                /\ participantsMap' = UpdateParticipants(participantsMap, msg)
    /\ i' = i + 1
    /\ UNCHANGED uiVars
    /\ UNCHANGED <<src, lines, myName, zipFile, pc, result>>

\* lines 44-132: a line that matches the start pattern
StartMessage ==
    /\ pc = "loop"
    /\ i < Len(lines)
    /\ \E line \in {CleanLine(lines[i + 1])} :
       \E match \in {MsgStartMatch(line)} :
          /\ line # <<>>
          /\ match # <<>>
          /\ \E loc \in {StartLocals(match[1])} :
             \E msg \in {NewMessage(i, match[1], loc, myName)} :
                /\ messages' = IF currentMessage # <<>>
                               THEN Append(messages, currentMessage[1])
                               ELSE messages
                /\ sendersSet' = SetAdd(sendersSet, loc.senderName)
                /\ locals' = <<loc>>
                /\ currentMessage' = <<msg>>
                /\ participantsMap' = UpdateParticipants(participantsMap, msg)
    /\ i' = i + 1
    /\ UNCHANGED uiVars
    /\ UNCHANGED <<src, lines, myName, zipFile, pc, result>>

\* lines 134-139: any other line
AppendContinuation ==
    /\ pc = "loop"
    /\ i < Len(lines)
    /\ \E line \in {CleanLine(lines[i + 1])} :
          /\ line # <<>>
          /\ MsgStartMatch(line) = <<>>
          /\ currentMessage' = Continue(currentMessage, line)
    /\ i' = i + 1
    /\ UNCHANGED uiVars
    /\ UNCHANGED <<src, lines, myName, zipFile, messages, participantsMap,
                   sendersSet, locals, pc, result>>

\* Return that drops the attachment names when there is no archive
ReturnDropsAttachments ==
    /\ pc = "loop"
    /\ i = Len(lines)
    /\ messages' = IF currentMessage # <<>>
                   THEN Append(messages, currentMessage[1])
                   ELSE messages
    /\ \E participants \in SortOutcomes(participantsMap) :
          result' = << [messages     |-> [k \in 1..Len(messages') |->
                                            IF zipFile = <<>>
                                            THEN [messages'[k] EXCEPT !.attachmentFileName = <<>>]
                                            ELSE messages'[k]],
                        participants |-> participants,
                        allSenders   |-> sendersSet,
                        zipFile      |-> zipFile] >>
    /\ pc' = "done"
    /\ UNCHANGED uiVars
    /\ UNCHANGED <<src, lines, myName, zipFile, i, currentMessage,
                   participantsMap, sendersSet, locals>>

\* Return that is also taken, before the end of the input, at a line that is
\* no start line read while no message is open
ReturnAtOrphan ==
    /\ pc = "loop"
    /\ \/ i = Len(lines)
       \/ /\ i < Len(lines)
          /\ currentMessage = <<>>
          /\ CleanLine(lines[i + 1]) # <<>>
          /\ MsgStartMatch(CleanLine(lines[i + 1])) = <<>>
    /\ messages' = IF currentMessage # <<>>
                   THEN Append(messages, currentMessage[1])
                   ELSE messages
    /\ \E participants \in SortOutcomes(participantsMap) :
          result' = << [messages     |-> messages',
                        participants |-> participants,
                        allSenders   |-> sendersSet,
                        zipFile      |-> zipFile] >>
    /\ pc' = "done"
    /\ UNCHANGED uiVars
    /\ UNCHANGED <<src, lines, myName, zipFile, i, currentMessage,
                   participantsMap, sendersSet, locals>>

\* lines 142-147: the end of the loop
Return ==
    /\ pc = "loop"
    /\ i = Len(lines)
    /\ messages' = IF currentMessage # <<>>
                   THEN Append(messages, currentMessage[1])
                   ELSE messages
    /\ \E participants \in SortOutcomes(participantsMap) :
          result' = << [messages     |-> messages',
                        participants |-> participants,
                        allSenders   |-> sendersSet,
                        zipFile      |-> zipFile] >>
    /\ pc' = "done"
    /\ UNCHANGED uiVars
    /\ UNCHANGED <<src, lines, myName, zipFile, i, currentMessage,
                   participantsMap, sendersSet, locals>>

Next == SkipBlank \/ StartMessage \/ AppendContinuation \/ Return

(***************************************************************************)
(* The input texts. A text is written line by line: a start line from its  *)
(* tokens, any other line from its body, each between a prefix and a       *)
(* suffix of white space and bidi marks. src keeps how the text was        *)
(* written; the parser reads only the characters.                          *)
(***************************************************************************)
\* a token of digits and the number it writes
Num(tok, val) == [tok |-> tok, val |-> val]

StartLine(pre, d1, s1, d2, s2, y, mk, h, mm, ss, sender, pad, content, post) ==
    [kind |-> "start", pre |-> pre, d1 |-> d1, s1 |-> s1, d2 |-> d2, s2 |-> s2,
     y |-> y, mk |-> mk, h |-> h, mm |-> mm, ss |-> ss,
     sender |-> sender, pad |-> pad, content |-> content, post |-> post]

OtherLine(kind, pre, body, post) ==
    [kind |-> kind, pre |-> pre, body |-> body, post |-> post]

\* the characters of one line of the text
Render(d) ==
    IF d.kind = "start"
    THEN d.pre \o <<"[">> \o d.d1.tok \o <<d.s1>> \o d.d2.tok \o <<d.s2>> \o d.y.tok
           \o <<" ">> \o (IF d.mk = <<>> THEN <<>> ELSE d.mk[1] \o <<" ">>)
           \o d.h.tok \o <<":">> \o d.mm.tok \o <<":">> \o d.ss.tok \o <<"]", " ">>
           \o d.sender \o d.pad \o <<":", " ">> \o d.content \o d.post
    ELSE d.pre \o d.body \o d.post

\* the text: its lines joined by "\n"
RECURSIVE JoinLines(_)
JoinLines(ds) ==
    IF Len(ds) = 1 THEN Render(ds[1])
    ELSE Render(ds[1]) \o <<"\n">> \o JoinLines(Tail(ds))

HelloLine ==
    StartLine(<<"LRM">>, Num(<<"2", "8">>, 28), ".", Num(<<"1", "1">>, 11), ".", Num(<<"2", "0", "2", "4">>, 2024),
              <<>>, Num(<<"1", "4">>, 14), Num(<<"0", "5">>, 5), Num(<<"0", "0">>, 0),
              <<"A">>, <<>>,
              <<"H", "e", "l", "l", "o">>,
              <<>>)

HiLine ==
    StartLine(<<>>, Num(<<"6">>, 6), "/", Num(<<"2", "7">>, 27), "/", Num(<<"2", "4">>, 24),
              <<<<"P", "M">>>>, Num(<<"1">>, 1), Num(<<"0", "5">>, 5), Num(<<"0", "0">>, 0),
              <<"B">>, <<" ">>,
              <<"H", "i">>,
              <<"\r">>)

CallLine ==
    StartLine(<<>>, Num(<<"1">>, 1), ".", Num(<<"1", "2">>, 12), ".", Num(<<"2", "0", "2", "4">>, 2024),
              <<>>, Num(<<"0", "9">>, 9), Num(<<"0", "0">>, 0), Num(<<"0", "0">>, 0),
              <<"A">>, <<>>,
              <<"S", "e", "s", "l", "i", " ", "a", "r", "a", "m", "a">>,
              <<>>)

PhotoLine ==
    StartLine(<<>>, Num(<<"2", "7">>, 27), ".", Num(<<"1", "1">>, 11), ".", Num(<<"2", "0", "2", "4">>, 2024),
              <<<<"O_uml", "S">>>>, Num(<<"1", "1">>, 11), Num(<<"5", "9">>, 59), Num(<<"5", "9">>, 59),
              <<"B">>, <<>>,
              <<"I", "M", "G", "-", "1", ".", "j", "p", "g", " ", "(", "f",
              "i", "l", "e", " ", "a", "t", "t", "a", "c", "h", "e", "d",
              ")">>,
              <<" ">>)

WorldLine ==
    OtherLine("text", <<>>,
              <<"w", "o", "r", "l", "d">>,
              <<>>)

PhraseLine ==
    OtherLine("text", <<" ", "\t">>,
              <<"s", "e", "s", " ", "d", "a", "h", "i", "l", " ", "e", "d",
              "i", "l", "m", "e", "d", "i">>,
              <<" ", "RLM">>)

NearMissLine ==
    OtherLine("text", <<>>,
              <<"[", "2", "8", ".", "1", "1", ".", "2", "0", "2", "4", " ",
              "1", "4", ":", "0", "5", "]", " ", "A", ":", " ", "H", "e", "l",
              "l", "o">>,
              <<>>)

EmptyLine ==
    OtherLine("blank", <<>>,
              <<>>,
              <<>>)

MarksLine ==
    OtherLine("blank", <<" ", "LRM">>,
              <<>>,
              <<"\t", "RLM", "\r">>)

\* the lines the texts of the specification Spec are made of
MainLines ==
    {HelloLine, HiLine, CallLine, PhotoLine, WorldLine, PhraseLine,
     NearMissLine, EmptyLine, MarksLine}

\* the longest text of Spec, in lines
MaxLines == 3

\* the sequences of 1..n elements of S
SeqsUpTo(S, n) == UNION {[1..k -> S] : k \in 1..n}

MyNames == { <<>>, << <<"A">> >> }

ZipFiles == { <<>>, <<"zip">> }

\* the first render of App and no ChatBubble on the screen
UiStart ==
    /\ step = "UPLOAD"
    /\ chatData = <<>>
    /\ error = <<>>
    /\ potentialOwners = <<>>
    /\ currentOwner = <<>>
    /\ props = <<>>
    /\ mediaUrl = <<>>
    /\ loadingMedia = FALSE
    /\ effects = <<>>
    /\ objectURLs = [created |-> {}, revoked |-> {}]

\* the state at line 38, before the first iteration, on the text written as ds
Start(ds, me, zip) ==
    /\ UiStart
    /\ src = ds
    /\ lines = Split(JoinLines(ds), "\n")
    /\ myName = me
    /\ zipFile = zip
    /\ i = 0
    /\ currentMessage = <<>>
    /\ messages = <<>>
    /\ participantsMap = <<>>
    /\ sendersSet = <<>>
    /\ locals = <<>>
    /\ pc = "loop"
    /\ result = <<>>

Init ==
    \E ds \in SeqsUpTo(MainLines, MaxLines), me \in MyNames, zip \in ZipFiles :
        Start(ds, me, zip)

Spec == Init /\ [][Next]_vars

(***************************************************************************)
(* SpecDate: texts of one start line whose date and time tokens range over *)
(* the sets below, alone or followed by one more line.                     *)
(***************************************************************************)
FirstTokens == { Num(<<"6">>, 6), Num(<<"2", "8">>, 28) }

SecondTokens == { Num(<<"2", "7">>, 27), Num(<<"1", "1">>, 11) }

YearTokens ==
    { Num(<<"2", "4">>, 24), Num(<<"0", "0">>, 0), Num(<<"9", "9">>, 99),
      Num(<<"1", "0", "0">>, 100), Num(<<"2", "0", "2", "4">>, 2024),
      Num(<<"0", "0", "2", "4">>, 24) }

HourTokens ==
    { Num(<<"0">>, 0), Num(<<"0", "1">>, 1), Num(<<"1", "1">>, 11),
      Num(<<"1", "2">>, 12), Num(<<"1", "3">>, 13), Num(<<"2", "3">>, 23) }

MarkerChoices == { <<>> } \cup { <<Markers[k]>> : k \in 1..Len(Markers) }

DateLines ==
    { StartLine(<<>>, d1, s1, d2, s2, y, mk, h, Num(<<"0", "5">>, 5), Num(<<"0", "0">>, 0),
                <<"A">>, <<>>, <<"x">>, <<>>) :
        d1 \in FirstTokens, s1 \in DateSeparators, d2 \in SecondTokens,
        s2 \in DateSeparators, y \in YearTokens, mk \in MarkerChoices,
        h \in HourTokens }

\* the lines that may follow the start line
FollowUps == { WorldLine, EmptyLine }

\* the texts of one line of S, alone or followed by one of FollowUps
OneLineTexts(S) == { <<d>> : d \in S } \cup { <<d, f>> : d \in S, f \in FollowUps }

InitDate == \E ds \in OneLineTexts(DateLines) : Start(ds, <<>>, <<>>)

SpecDate == InitDate /\ [][Next]_vars

(***************************************************************************)
(* SpecClassify: texts of one start line whose content ranges over         *)
(* ContentCases, alone or followed by one more line.                       *)
(***************************************************************************)
ContentCase(content, phrases, newCapture, oldCapture) ==
    [content |-> content, phrases |-> phrases,
     newCapture |-> newCapture, oldCapture |-> oldCapture]

\* the contents the texts of SpecClassify carry, each with the phrases of
\* lines 82-86 it holds (by their place in that order) and what each of the
\* two attachment patterns captures in it
ContentCases ==
    { ContentCase(<<"H", "e", "l", "l", "o">>,
                {}, <<>>, <<>>),
      ContentCase(<<"g", "o_uml", "r", "u_uml", "n", "t", "u_uml", " ", "d", "a",
                "h", "i", "l", " ", "e", "d", "i", "l", "m", "e", "d", "i">>,
                {1}, <<>>, <<>>),
      ContentCase(<<"S", "e", "s", " ", "d", "a", "h", "i", "l", " ", "e", "d",
                "i", "l", "m", "e", "d", "i">>,
                {2}, <<>>, <<>>),
      ContentCase(<<"G", "u_uml", "v", "e", "n", "l", "i", "k", " ", "k", "o",
                "d", "u", " ", "d", "e", "g_breve", "i", "s_ced", "t", "i">>,
                {3}, <<>>, <<>>),
      ContentCase(<<"G", "o_uml", "r", "u_uml", "n", "t", "u_uml", "l", "u_uml",
                " ", "a", "r", "a", "m", "a">>,
                {4}, <<>>, <<>>),
      ContentCase(<<"S", "E", "S", "L", "I", " ", "A", "R", "A", "M", "A">>,
                {5}, <<>>, <<>>),
      ContentCase(<<"s", "e", "s", "l", "i", " ", "a", "r", "a", "m", "a", " ",
                "g", "o_uml", "r", "u_uml", "n", "t", "u_uml", " ", "d", "a",
                "h", "i", "l", " ", "e", "d", "i", "l", "m", "e", "d", "i">>,
                {1, 5}, <<>>, <<>>),
      ContentCase(<<"g", "o_uml", "r", "u_uml", "n", "t", "u_uml", "l", "u_uml",
                " ", "a", "r", "a", "m", "a", " ", "s", "e", "s", " ", "d",
                "a", "h", "i", "l", " ", "e", "d", "i", "l", "m", "e", "d",
                "i">>,
                {2, 4}, <<>>, <<>>),
      ContentCase(<<"g", "u_uml", "v", "e", "n", "l", "i", "k", " ", "k", "o",
                "d", "u", " ", "d", "e", "g_breve", "i", "s_ced", "t", "i",
                " ", "s", "e", "s", "l", "i", " ", "a", "r", "a", "m", "a">>,
                {3, 5}, <<>>, <<>>),
      ContentCase(<<"<", "a", ".", "j", "p", "g", " ", "e", "k", "l", "e", "n",
                "d", "i", ">">>,
                {}, <<<<"a", ".", "j", "p", "g">>>>, <<>>),
      ContentCase(<<"I", "M", "G", "-", "1", ".", "j", "p", "g", " ", "(", "f",
                "i", "l", "e", " ", "a", "t", "t", "a", "c", "h", "e", "d",
                ")">>,
                {}, <<>>, <<<<"I", "M", "G", "-", "1", ".", "j", "p", "g">>>>),
      ContentCase(<<"<", "a", ".", "j", "p", "g", " ", "e", "k", "l", "e", "n",
                "d", "i", ">", " ", "b", ".", "m", "p", "4", " ", "(", "f",
                "i", "l", "e", " ", "a", "t", "t", "a", "c", "h", "e", "d",
                ")">>,
                {}, <<<<"a", ".", "j", "p", "g">>>>, <<<<" ", "b", ".", "m", "p", "4">>>>),
      ContentCase(<<"b", ".", "m", "p", "4", " ", "(", "f", "i", "l", "e", " ",
                "a", "t", "t", "a", "c", "h", "e", "d", ")", " ", "<", "a",
                ".", "j", "p", "g", " ", "e", "k", "l", "e", "n", "d", "i",
                ">">>,
                {}, <<<<"a", ".", "j", "p", "g">>>>, <<<<"b", ".", "m", "p", "4">>>>),
      ContentCase(<<"g", "o_uml", "r", "u_uml", "n", "t", "u_uml", " ", "d", "a",
                "h", "i", "l", " ", "e", "d", "i", "l", "m", "e", "d", "i",
                " ", "a", ".", "m", "p", "4", " ", "(", "f", "i", "l", "e",
                " ", "a", "t", "t", "a", "c", "h", "e", "d", ")">>,
                {1}, <<>>, <<<<" ", "d", "a", "h", "i", "l", " ", "e", "d", "i", "l", "m", "e", "d", "i", " ", "a", ".", "m", "p", "4">>>>),
      ContentCase(<<"s", "e", "s", "l", "i", " ", "a", "r", "a", "m", "a", " ",
                "<", "v", ".", "o", "p", "u", "s", " ", "e", "k", "l", "e",
                "n", "d", "i", ">">>,
                {5}, <<<<"v", ".", "o", "p", "u", "s">>>>, <<>>),
      ContentCase(<<"a", ".", "p", "d", "f", " ", "(", "f", "i", "l", "e", " ",
                "a", "t", "t", "a", "c", "h", "e", "d", ")">>,
                {}, <<>>, <<<<"a", ".", "p", "d", "f">>>>),
      ContentCase(<<"g", "u_uml", "v", "e", "n", "l", "i", "k", " ", "k", "o",
                "d", "u", " ", "d", "e", "g_breve", "i", "s_ced", "t", "i",
                " ", "<", "a", ".", "p", "d", "f", " ", "e", "k", "l", "e",
                "n", "d", "i", ">">>,
                {3}, <<<<"a", ".", "p", "d", "f">>>>, <<>>),
      ContentCase(<<"s", "e", "s", " ", "d", "a", "h", "i", "l", " ", "e", "d",
                "i", "l", "m", "e", "d", "i", " ", "<", "A", ".", "P", "N",
                "G", " ", "e", "k", "l", "e", "n", "d", "i", ">">>,
                {2}, <<<<"A", ".", "P", "N", "G">>>>, <<>>),
      ContentCase(<<"a", ".", "m", "o", "v", " ", "(", "d", "o", "s", "y", "a",
                " ", "e", "k", "l", "e", "n", "d", "i", ")">>,
                {}, <<>>, <<<<"a", ".", "m", "o", "v">>>>),
      ContentCase(<<"<", "a", ".", "w", "e", "b", "p", " ", "e", "k", "l", "e",
                "n", "d", "i", ">">>,
                {}, <<<<"a", ".", "w", "e", "b", "p">>>>, <<>>),
      ContentCase(<<"a", ".", "j", "p", "e", "g", " ", "(", "f", "i", "l", "e",
                " ", "a", "t", "t", "a", "c", "h", "e", "d", ")">>,
                {}, <<>>, <<<<"a", ".", "j", "p", "e", "g">>>>),
      ContentCase(<<"<", "a", ".", "m", "p", "3", " ", "e", "k", "l", "e", "n",
                "d", "i", ">">>,
                {}, <<<<"a", ".", "m", "p", "3">>>>, <<>>),
      ContentCase(<<"a", ".", "j", "p", "g", ".", "m", "p", "4", " ", "(", "f",
                "i", "l", "e", " ", "a", "t", "t", "a", "c", "h", "e", "d",
                ")">>,
                {}, <<>>, <<<<"a", ".", "j", "p", "g", ".", "m", "p", "4">>>>),
      ContentCase(<<"<", "a", ".", "j", "p", "g", " ", "e", "k", "l", "e", "n",
                "d", "i">>,
                {}, <<>>, <<>>),
      ContentCase(<<"<", "c", ".", "p", "d", "f", " ", "e", "k", "l", "e", "n",
                "d", "i", ">", " ", "d", ".", "p", "n", "g", " ", "(", "f",
                "i", "l", "e", " ", "a", "t", "t", "a", "c", "h", "e", "d",
                ")">>,
                {}, <<<<"c", ".", "p", "d", "f">>>>, <<<<" ", "d", ".", "p", "n", "g">>>>) }

ClassifyLines ==
    { StartLine(<<>>, Num(<<"2", "8">>, 28), ".", Num(<<"1", "1">>, 11), ".",
                Num(<<"2", "0", "2", "4">>, 2024), <<>>, Num(<<"1", "4">>, 14),
                Num(<<"0", "5">>, 5), Num(<<"0", "0">>, 0),
                <<"A">>, <<>>, c.content, <<>>) : c \in ContentCases }

InitClassify == \E ds \in OneLineTexts(ClassifyLines) : Start(ds, <<>>, <<>>)

SpecClassify == InitClassify /\ [][Next]_vars

(***************************************************************************)
(* SpecPeople: texts whose start lines come from three senders, one of     *)
(* them with an empty name, with dates out of order and one date token     *)
(* that mixes the separators, parsed for every self identity.              *)
(***************************************************************************)
EarlyLine ==
    StartLine(<<>>, Num(<<"1">>, 1), ".", Num(<<"1">>, 1), ".", Num(<<"2", "0", "2", "4">>, 2024),
              <<>>, Num(<<"0", "8">>, 8), Num(<<"0", "0">>, 0), Num(<<"0", "0">>, 0),
              <<"A">>, <<>>,
              <<"O", "l", "d">>,
              <<>>)

AnonLine ==
    StartLine(<<>>, Num(<<"2", "9">>, 29), ".", Num(<<"1", "1">>, 11), ".", Num(<<"2", "0", "2", "4">>, 2024),
              <<>>, Num(<<"1", "0">>, 10), Num(<<"0", "0">>, 0), Num(<<"0", "0">>, 0),
              <<>>, <<>>,
              <<"A", "n", "o", "n">>,
              <<>>)

MixedLine ==
    StartLine(<<>>, Num(<<"2", "8">>, 28), ".", Num(<<"1", "1">>, 11), "/", Num(<<"2", "0", "2", "4">>, 2024),
              <<>>, Num(<<"1", "4">>, 14), Num(<<"0", "5">>, 5), Num(<<"0", "0">>, 0),
              <<"B">>, <<>>,
              <<"M", "i", "x">>,
              <<>>)

PeopleLines ==
    {HelloLine, HiLine, CallLine, EarlyLine, AnonLine, MixedLine, WorldLine,
     MarksLine}

\* the longest text of SpecPeople, in lines
MaxPeopleLines == 3

\* the parameter myName: null, the empty string, and two names
PeopleNames == { <<>>, << <<>> >>, << <<"A">> >>, << <<"B">> >> }

InitPeople ==
    \E ds \in SeqsUpTo(PeopleLines, MaxPeopleLines), me \in PeopleNames :
        Start(ds, me, <<>>)

SpecPeople == InitPeople /\ [][Next]_vars

(***************************************************************************)
(* SpecColor: texts of one start line whose sender ranges over ColorNames, *)
(* alone or followed by one more line; the sender becomes a participant    *)
(* and gets its color at line 125.                                         *)
(***************************************************************************)
ColorNames ==
    { <<"A">>,
      <<"B", "o", "b">>,
      <<"A", "l", "i", "c", "e">>,
      <<"A", "l", "i">>,
      <<"A", "y", "s", "e">>,
      <<"M", "e", "h", "m", "e", "t">>,
      <<"F", "e", "r", "h", "a", "t">>,
      <<"Z", "e", "y", "n", "e", "p">>,
      <<"E", "l", "i", "f", " ", "K">>,
      <<"M", "u", "s", "t", "a", "f", "a">>,
      <<"A", "h", "m", "e", "t", " ", "Y">>,
      <<"K", "e", "m", "a", "l">> }

ColorLines ==
    { StartLine(<<>>, Num(<<"2", "8">>, 28), ".", Num(<<"1", "1">>, 11), ".",
                Num(<<"2", "0", "2", "4">>, 2024), <<>>, Num(<<"1", "4">>, 14),
                Num(<<"0", "5">>, 5), Num(<<"0", "0">>, 0),
                n, <<>>, <<"H", "i">>, <<>>) : n \in ColorNames }

InitColor == \E ds \in OneLineTexts(ColorLines) : Start(ds, <<>>, <<>>)

SpecColor == InitColor /\ [][Next]_vars

(***************************************************************************)
(* SpecArchive: short texts with and without attachment, parsed with each  *)
(* archive handle and self identity.                                       *)
(***************************************************************************)
ArchiveLines == {PhotoLine, HelloLine, HiLine, CallLine, WorldLine, EmptyLine}

\* the longest text of SpecArchive, in lines
MaxArchiveLines == 2

InitArchive ==
    \E ds \in SeqsUpTo(ArchiveLines, MaxArchiveLines), me \in MyNames, zip \in ZipFiles :
        Start(ds, me, zip)

SpecArchive == InitArchive /\ [][Next]_vars

(***************************************************************************)
(* Properties. What a text should give is read from src, the way the text  *)
(* was written: which of its lines are start lines, their tokens, and the  *)
(* bodies of the other lines.                                              *)
(***************************************************************************)
\* the records read so far, the open one last
Records == IF pc = "done" THEN result[1].messages ELSE messages \o currentMessage

\* the contents of the records read so far
Contents == [k \in 1..Len(Records) |-> Records[k].content]

\* the number of start lines of ds
StartCount(ds) == Cardinality({k \in 1..Len(ds) : ds[k].kind = "start"})

\* the contents the lines ds should give: a start line opens a content, a
\* text line goes behind a line break into the last content opened, if any
RECURSIVE ExpectedContents(_)
ExpectedContents(ds) ==
    IF ds = <<>> THEN <<>>
    ELSE LET before == ExpectedContents(SubSeq(ds, 1, Len(ds) - 1))
             d      == ds[Len(ds)]
         IN  IF d.kind = "start" THEN Append(before, d.content)
             ELSE IF d.kind = "text" /\ before # <<>>
             THEN [before EXCEPT ![Len(before)] = @ \o <<"\n">> \o d.body]
             ELSE before

\* no start line among the first n lines
NoStartBefore(n) == \A k \in 1..n : src[k].kind # "start"

\* ds from its first start line on, <<>> when it has none
FromFirstStart(ds) ==
    LET starts == {k \in 1..Len(ds) : ds[k].kind = "start"}
    IN  IF starts = {} THEN <<>>
        ELSE SubSeq(ds, CHOOSE k \in starts : \A j \in starts : k <= j, Len(ds))

\* C1: after every line read, and so in the list returned, there are as many
\* records as start lines were read: a continuation line or a blank line adds
\* no record.
C1_RecordCount ==
    /\ Len(Records) = StartCount(SubSeq(src, 1, i))
    /\ pc = "done" => Len(result[1].messages) = StartCount(src)

C1_Witness ==
    /\ pc = "done"
    /\ Len(src) = 3
    /\ src[1] = HelloLine /\ src[2].kind = "text" /\ src[3].kind = "blank"
    /\ Len(result[1].messages) = 1

\* C2: after every line read, the content of each record is the content of
\* its start line followed, in input order, by a line break and the trimmed
\* line for every text line between that start line and the next one; so a
\* text line goes to the most recent record only, and a record closed by a
\* later start line keeps its content.
C2_ContinuationOrder == Contents = ExpectedContents(SubSeq(src, 1, i))

C2_Witness ==
    /\ pc = "done"
    /\ Len(src) = 3
    /\ src[1].kind = "start" /\ src[2] = PhraseLine /\ src[3].kind = "start"
    /\ Len(result[1].messages) = 2
    /\ result[1].messages[1].content = src[1].content \o <<"\n">> \o src[2].body
    /\ result[1].messages[2].content = src[3].content

\* C3: as long as no start line has been read there is no record, no open
\* message, no sender and no participant; a text without start lines returns
\* empty messages, allSenders and participants; and the contents returned are
\* those of the text from its first start line on.
C3_OrphansDiscarded ==
    /\ NoStartBefore(i) =>
          /\ messages = <<>> /\ currentMessage = <<>>
          /\ sendersSet = <<>> /\ participantsMap = <<>>
    /\ pc = "done" =>
          /\ Contents = ExpectedContents(FromFirstStart(src))
          /\ NoStartBefore(Len(src)) =>
                /\ result[1].messages = <<>>
                /\ result[1].allSenders = <<>>
                /\ result[1].participants = <<>>

C3_Witness ==
    /\ pc = "done"
    /\ Len(src) = 3
    /\ src[1].kind = "text" /\ src[2].kind = "start" /\ src[3].kind = "text"
    /\ Len(result[1].messages) = 1
    /\ result[1].messages[1].content = src[2].content \o <<"\n">> \o src[3].body

\* C4: the step that reads a blank line changes nothing but the loop index:
\* the open message, the messages list, the sender set and the participant
\* map are the same before and after it.
C4_BlankLineFrame ==
    [][(pc = "loop" /\ i < Len(src) /\ src[i + 1].kind = "blank")
         => /\ i' = i + 1
            /\ UNCHANGED <<currentMessage, messages, sendersSet, participantsMap>>]_vars

C4_Witness ==
    /\ pc = "loop"
    /\ i >= 2
    /\ src[i - 1].kind = "start" /\ src[i] = MarksLine
    /\ currentMessage # <<>>
    /\ currentMessage[1].content = src[i - 1].content

(***************************************************************************)
(* Date and time, read in SpecDate from the tokens of the one start line.  *)
(***************************************************************************)
\* the date token of d is written with the separator sep in both places
Uniform(d, sep) == d.s1 = sep /\ d.s2 = sep

\* the year the year token of d stands for
WindowedYear(d) == IF d.y.val < 100 THEN d.y.val + 2000 ELSE d.y.val

\* C5: for every start line the separator of the date token decides the
\* order of its fields: day, month, year after ".", month, day, year after
\* "/". The separator of a token is the first one it is written with.
C5_SeparatorDecidesOrder ==
    locals # <<>> =>
       LET d == src[1]
           l == locals[1]
       IN  /\ d.s1 = "." => l.day = d.d1.val /\ l.month = d.d2.val /\ l.year = d.y.val
           /\ d.s1 = "/" => l.month = d.d1.val /\ l.day = d.d2.val /\ l.year = d.y.val

\* C5 on a token written with both separators: 28.11/2024 is read with day 28,
\* a month that is no number and no year, and the date is invalid.
C5_MixedToken ==
    /\ locals # <<>>
    /\ src[1].d1.val = 28 /\ src[1].s1 = "." /\ src[1].d2.val = 11
    /\ src[1].s2 = "/" /\ src[1].y.val = 2024
    /\ locals[1].day = 28 /\ locals[1].month = NaN /\ locals[1].year = Undefined
    /\ ~locals[1].timestamp.valid

\* C5 for the tokens written with one separator: the fields are read in the
\* order of the separator, and 28.11.2024 and 6/27/24 without marker give the
\* timestamps of 28 November 2024 and 27 June 2024.
C5_SingleSeparatorOrder ==
    locals # <<>> =>
       LET d == src[1]
           l == locals[1]
       IN  /\ Uniform(d, ".") => l.day = d.d1.val /\ l.month = d.d2.val /\ l.year = d.y.val
           /\ Uniform(d, "/") => l.month = d.d1.val /\ l.day = d.d2.val /\ l.year = d.y.val
           /\ (Uniform(d, ".") /\ d.d1.val = 28 /\ d.d2.val = 11 /\ d.y.val = 2024 /\ d.mk = <<>>)
                 => l.timestamp.valid /\ l.timestamp.day = 20055
           /\ (Uniform(d, "/") /\ d.d1.val = 6 /\ d.d2.val = 27 /\ d.y.val = 24 /\ d.mk = <<>>)
                 => l.timestamp.valid /\ l.timestamp.day = 19901

\* C6: for every start line the normalized hour is h + 12 with a PM marker
\* and h # 12, 0 with an AM marker and h = 12, and h in every other case; it
\* is the hour of the timestamp.
C6_HourNormalization ==
    locals # <<>> =>
       LET d  == src[1]
           l  == locals[1]
           h  == d.h.val
           pm == d.mk \in { << <<"O_uml", "S">> >>, << <<"P", "M">> >> }
           am == d.mk \in { << <<"O_uml", "O_uml">> >>, << <<"A", "M">> >> }
           expected == IF pm /\ h # 12 THEN h + 12
                       ELSE IF am /\ h = 12 THEN 0
                       ELSE h
       IN  /\ l.hours = expected
           /\ l.timestamp.valid =>
                 l.timestamp.sec = (expected * 3600 + d.mm.val * 60 + d.ss.val) % 86400

C6_Witness ==
    /\ locals # <<>>
    /\ src[1].mk = << <<"O_uml", "O_uml">> >>
    /\ src[1].h.val = 12
    /\ locals[1].hours = 0
    /\ locals[1].timestamp.valid /\ locals[1].timestamp.sec = 300

\* C7: for every start line the year the timestamp is built with is the value
\* of the year token plus 2000 when the value is below 100, and the value
\* itself otherwise.
C7_YearWindow == locals # <<>> => locals[1].fullYear = WindowedYear(src[1])

\* C7 on a token written with both separators: 6/27.24 has no third field,
\* the year is undefined and the date is invalid.
C7_MixedToken ==
    /\ locals # <<>>
    /\ src[1].d1.val = 6 /\ src[1].s1 = "/" /\ src[1].d2.val = 27
    /\ src[1].s2 = "." /\ src[1].y.val = 24
    /\ locals[1].fullYear = Undefined
    /\ ~locals[1].timestamp.valid

\* C7 for the tokens written with one separator: the year is windowed, and
\* 28.11.99, 28.11.00 and 28.11.100 without marker give the timestamps of
\* 28 November 2099, 2000 and 100.
C7_SingleSeparatorYear ==
    (locals # <<>> /\ (Uniform(src[1], ".") \/ Uniform(src[1], "/"))) =>
       LET d == src[1]
           l == locals[1]
           nov28 == Uniform(d, ".") /\ d.d1.val = 28 /\ d.d2.val = 11 /\ d.mk = <<>>
       IN  /\ l.fullYear = WindowedYear(d)
           /\ (nov28 /\ d.y.val = 99) => l.timestamp.day = 47448
           /\ (nov28 /\ d.y.val = 0) => l.timestamp.day = 11289
           /\ (nov28 /\ d.y.val = 100) => l.timestamp.day = 0 - 682672

(***************************************************************************)
(* Classification, read in SpecClassify from the content of the one start  *)
(* line: ContentCases tells which phrases it holds and what the two        *)
(* attachment patterns capture in it.                                      *)
(***************************************************************************)
\* the case of ContentCases the start line carries
CaseOf(d) == CHOOSE c \in ContentCases : c.content = d.content

\* the file name captured in the case c, <<>> when neither pattern matches
Captured(c) == IF c.newCapture # <<>> THEN c.newCapture ELSE c.oldCapture

\* the file name ends with a dot and the extension ext, in any case of letters
HasExtension(name, ext) ==
    /\ Len(name) > Len(ext)
    /\ name[Len(name) - Len(ext)] = "."
    /\ ToLowerCase(SubSeq(name, Len(name) - Len(ext) + 1, Len(name))) = ext

\* the type the extension of a file name stands for, "none" when it has none
TypeOfExtension(name) ==
    IF \E e \in {<<"j", "p", "g">>, <<"j", "p", "e", "g">>, <<"p", "n", "g">>,
                 <<"w", "e", "b", "p">>} : HasExtension(name, e) THEN "image"
    ELSE IF \E e \in {<<"o", "p", "u", "s">>, <<"m", "p", "3">>, <<"w", "a", "v">>,
                      <<"a", "a", "c">>, <<"m", "4", "a">>} : HasExtension(name, e) THEN "audio"
    ELSE IF \E e \in {<<"m", "p", "4">>, <<"m", "o", "v">>} : HasExtension(name, e) THEN "video"
    ELSE "none"

\* the type of the first phrase, in the order missing-image, missing-audio,
\* security-code-change, video-call, voice-call, among the phrases ph
TypeOfPhrases(ph) ==
    IF ph = {} THEN "text"
    ELSE IF 1 \in ph THEN "image"
    ELSE IF 2 \in ph THEN "audio"
    ELSE "system"

\* C8 as stated: whenever a file name is captured, the type of the record is
\* the one its extension stands for, image, audio or video.
C8_ExtensionAlwaysOverrides ==
    locals # <<>> =>
       LET c == CaseOf(src[1])
       IN  Captured(c) # <<>> => Records[1].type = TypeOfExtension(Captured(c)[1])

\* C8: whenever a file name is captured and its extension is one of jpg, jpeg,
\* png, webp, opus, mp3, mp4, mov, the type of the record is the one the
\* extension stands for, whatever the phrases say; with the extension pdf the
\* type is the one of the phrases, text when there is none.
C8_ExtensionOverride ==
    locals # <<>> =>
       LET c == CaseOf(src[1])
           t == IF Captured(c) = <<>> THEN "none" ELSE TypeOfExtension(Captured(c)[1])
       IN  Captured(c) # <<>> =>
              /\ t # "none" => Records[1].type = t
              /\ t = "none" =>
                    /\ HasExtension(Captured(c)[1], <<"p", "d", "f">>)
                    /\ Records[1].type = TypeOfPhrases(c.phrases)
              /\ Records[1].isSystem = (Records[1].type = "system")

C8_Witness ==
    /\ locals # <<>>
    /\ CaseOf(src[1]).phrases = {1}
    /\ Captured(CaseOf(src[1])) # <<>>
    /\ HasExtension(Captured(CaseOf(src[1]))[1], <<"m", "p", "4">>)
    /\ locals[1].phraseType = "image"
    /\ Records[1].type = "video"

\* C9: when both attachment forms match the content, attachmentFileName is
\* the capture of the angle-bracket form; the capture of the parenthetical
\* form is taken only when the angle-bracket form does not match, and there is
\* no file name when neither matches.
C9_AnglePrecedence ==
    locals # <<>> =>
       LET c == CaseOf(src[1])
       IN  /\ c.newCapture # <<>> => Records[1].attachmentFileName = c.newCapture
           /\ (c.newCapture = <<>> /\ c.oldCapture # <<>>) =>
                 Records[1].attachmentFileName = c.oldCapture
           /\ (c.newCapture = <<>> /\ c.oldCapture = <<>>) =>
                 Records[1].attachmentFileName = <<>>

C9_Witness ==
    /\ locals # <<>>
    /\ CaseOf(src[1]).newCapture # <<>>
    /\ CaseOf(src[1]).oldCapture # <<>>
    /\ CaseOf(src[1]).newCapture # CaseOf(src[1]).oldCapture
    /\ locals[1].attachMatchOld = CaseOf(src[1]).oldCapture
    /\ Records[1].attachmentFileName = CaseOf(src[1]).newCapture

\* C10: without attachment reference the type of the record is the one of the
\* first phrase, in the fixed order, that the content holds, also when it
\* holds several, and text when it holds none.
C10_FirstPhraseWins ==
    locals # <<>> =>
       LET c == CaseOf(src[1])
       IN  Captured(c) = <<>> => Records[1].type = TypeOfPhrases(c.phrases)

C10_Witness ==
    /\ locals # <<>>
    /\ CaseOf(src[1]).phrases = {1, 5}
    /\ Captured(CaseOf(src[1])) = <<>>
    /\ Records[1].type = "image"

(***************************************************************************)
(* Self identity, participants and senders, read in SpecPeople.            *)
(***************************************************************************)
\* C11: isMe of every record is true exactly when the sender of the record
\* equals myName, for every string myName, the empty string included, and it
\* is false for every record when myName is null.
C11_IsMeIffSenderIsMyName ==
    \A k \in 1..Len(Records) :
        Records[k].isMe = (myName # <<>> /\ Records[k].sender = myName[1])

\* C11 with the empty string as myName: a record whose sender is the empty
\* string, equal to myName, has isMe false.
C11_EmptyIdentity ==
    /\ pc = "done"
    /\ myName = << <<>> >>
    /\ \E k \in 1..Len(Records) : Records[k].sender = <<>> /\ ~Records[k].isMe

\* C11 for myName null or a string that is not empty: isMe is the equality
\* of sender and myName, false throughout for null.
C11_NamedIdentity ==
    (myName = <<>> \/ myName[1] # <<>>) =>
       \A k \in 1..Len(Records) :
           Records[k].isMe = (myName # <<>> /\ Records[k].sender = myName[1])

\* the step about to be taken reads a start line
ReadsStartLine == pc = "loop" /\ i < Len(src) /\ src[i + 1].kind = "start"

\* the entries of the participant map other than the one of name
Others(map, name) == SelectSeq(map, LAMBDA p : p.name # name)

\* C12: the step that reads a start line leaves the participant map unchanged
\* when the new record has isMe or isSystem true; otherwise, and only then,
\* the map afterwards holds an entry of the record's sender with the content
\* and the timestamp of the record, created if there was none, and the
\* entries of the other names are as before.
C12_ParticipantGate ==
    [][ReadsStartLine =>
          LET m == currentMessage'[1]
              had == \E k \in 1..Len(participantsMap) : participantsMap[k].name = m.sender
          IN  IF m.isMe \/ m.isSystem
              THEN participantsMap' = participantsMap
              ELSE /\ Len(participantsMap') = Len(participantsMap) + (IF had THEN 0 ELSE 1)
                   /\ \E k \in 1..Len(participantsMap') :
                         /\ participantsMap'[k].name = m.sender
                         /\ participantsMap'[k].lastMessage = m.content
                         /\ participantsMap'[k].lastMessageDate = m.timestamp
                   /\ Others(participantsMap', m.sender) = Others(participantsMap, m.sender)]_vars

C12_Witness ==
    /\ pc = "loop" /\ i = 3
    /\ myName = << <<"A">> >>
    /\ src[1] = HiLine /\ src[2] = HelloLine /\ src[3] = CallLine
    /\ currentMessage # <<>> /\ currentMessage[1].isSystem
    /\ messages[2].isMe
    /\ Len(participantsMap) = 1 /\ participantsMap[1].name = <<"B">>

\* the names of a sequence of participant entries
Names(ps) == {ps[k].name : k \in 1..Len(ps)}

\* no two entries of ps have the same name
DistinctNames(ps) == \A a, b \in 1..Len(ps) : ps[a].name = ps[b].name => a = b

\* the senders with a record that is neither self nor system
QualifyingSenders(recs) ==
    {recs[k].sender : k \in {j \in 1..Len(recs) : ~recs[j].isMe /\ ~recs[j].isSystem}}

\* the state part of C13
ParticipantNamesMatch ==
    /\ DistinctNames(participantsMap)
    /\ Names(participantsMap) = QualifyingSenders(Records)
    /\ pc = "done" =>
          /\ DistinctNames(result[1].participants)
          /\ Len(result[1].participants) = Len(participantsMap)
          /\ Names(result[1].participants) = QualifyingSenders(result[1].messages)

\* C13: at every point of the pass and in the result the participant names
\* are pairwise distinct and are exactly the senders that have, among the
\* start lines read so far, a record that is neither self nor system; and no
\* step removes a name from the participant map.
C13_ParticipantNames ==
    /\ []ParticipantNamesMatch
    /\ [][Names(participantsMap) \subseteq Names(participantsMap')]_vars

C13_Witness ==
    /\ pc = "done"
    /\ myName = << <<>> >>
    /\ Len(src) = 3
    /\ src[1] = HelloLine /\ src[2] = AnonLine /\ src[3] = EarlyLine
    /\ Len(result[1].messages) = 3
    /\ Names(result[1].participants) = {<<"A">>, <<>>}
    /\ Len(result[1].participants) = 2

\* the last record of recs that is of the sender name and neither self nor
\* system; the participant entries are those of the names that have one
LastQualifying(recs, name) ==
    LET ks == {k \in 1..Len(recs) :
                  recs[k].sender = name /\ ~recs[k].isMe /\ ~recs[k].isSystem}
    IN  recs[CHOOSE k \in ks : \A j \in ks : j <= k]

\* the content up to its first line break
RECURSIVE FirstLine(_)
FirstLine(content) ==
    IF content = <<>> \/ content[1] = "\n" THEN <<>>
    ELSE <<content[1]>> \o FirstLine(Tail(content))

\* C14: in the result, lastMessage of every participant equals the content
\* of the last record of its name that is neither self nor system, also when
\* continuation lines were appended to that content.
C14_LastMessageIsContent ==
    pc = "done" =>
       \A k \in 1..Len(result[1].participants) :
          LET p == result[1].participants[k]
          IN  p.lastMessage = LastQualifying(result[1].messages, p.name).content

\* C14 on a record with a continuation line: the content is Hello, a line
\* break, world; lastMessage of the sender is Hello.
C14_ContinuationLost ==
    /\ pc = "done"
    /\ myName = <<>>
    /\ src = <<HelloLine, WorldLine>>
    /\ result[1].messages[1].content = HelloLine.content \o <<"\n">> \o WorldLine.body
    /\ result[1].participants[1].name = <<"A">>
    /\ result[1].participants[1].lastMessage = HelloLine.content

\* C14 for the first line of the content: lastMessage of every participant is
\* the content of the start line of its last record that is neither self nor
\* system.
C14_LastMessageIsFirstLine ==
    pc = "done" =>
       \A k \in 1..Len(result[1].participants) :
          LET p == result[1].participants[k]
          IN  p.lastMessage = FirstLine(LastQualifying(result[1].messages, p.name).content)

\* C15: lastMessageDate of every participant, during the pass and in the
\* result, is the timestamp of the last record of its name, in input order,
\* that is neither self nor system, also when an earlier record of the name
\* has a later timestamp.
C15_LastDateIsLastRecord ==
    /\ \A k \in 1..Len(participantsMap) :
          participantsMap[k].lastMessageDate =
             LastQualifying(Records, participantsMap[k].name).timestamp
    /\ pc = "done" =>
          \A k \in 1..Len(result[1].participants) :
             result[1].participants[k].lastMessageDate =
                LastQualifying(result[1].messages, result[1].participants[k].name).timestamp

C15_Witness ==
    /\ pc = "done"
    /\ myName = <<>>
    /\ src = <<HelloLine, EarlyLine>>
    /\ result[1].messages[1].timestamp.day = 20055
    /\ result[1].messages[2].timestamp.day = 19723
    /\ Len(result[1].participants) = 1
    /\ result[1].participants[1].lastMessageDate.day = 19723

\* a >= b of the time values of two dates: false when one of them is NaN
TimeGE(a, b) == a.valid /\ b.valid /\ DateGE(a, b)

\* C16: the participants returned are sorted by lastMessageDate in descending
\* order: of two adjacent entries the earlier has a lastMessageDate greater
\* than or equal to that of the later.
C16_SortedDescending ==
    pc = "done" =>
       \A k \in 1..(Len(result[1].participants) - 1) :
          TimeGE(result[1].participants[k].lastMessageDate,
                 result[1].participants[k + 1].lastMessageDate)

\* C16 on a text with a date token that mixes the separators: the entry of B
\* has an invalid date, which is neither above nor below the date of A.
C16_InvalidDateEntry ==
    /\ pc = "done"
    /\ myName = <<>>
    /\ src = <<HelloLine, MixedLine>>
    /\ Len(result[1].participants) = 2
    /\ \E k \in 1..2 :
          /\ result[1].participants[k].name = <<"B">>
          /\ ~result[1].participants[k].lastMessageDate.valid

\* C16 for the texts whose participants all have a valid date: the
\* participants returned are sorted by lastMessageDate in descending order.
C16_SortedWhenValid ==
    (pc = "done" /\ \A k \in 1..Len(participantsMap) : participantsMap[k].lastMessageDate.valid) =>
       \A k \in 1..(Len(result[1].participants) - 1) :
          TimeGE(result[1].participants[k].lastMessageDate,
                 result[1].participants[k + 1].lastMessageDate)

\* the sender names of the start lines of ds, each once, in the order of
\* their first occurrence
RECURSIVE ExpectedSenders(_)
ExpectedSenders(ds) ==
    IF ds = <<>> THEN <<>>
    ELSE LET before == ExpectedSenders(SubSeq(ds, 1, Len(ds) - 1))
             d      == ds[Len(ds)]
         IN  IF d.kind = "start" /\ \A k \in 1..Len(before) : before[k] # d.sender
             THEN Append(before, d.sender)
             ELSE before

\* the elements of a sequence
Elements(seq) == {seq[k] : k \in 1..Len(seq)}

\* C17: the sender set holds, after every line, the trimmed sender names of
\* the start lines read, each once, in the order of their first occurrence;
\* allSenders is that sequence for the whole text, and the name of every
\* participant and the sender of every record are among its elements.
C17_AllSenders ==
    /\ sendersSet = ExpectedSenders(SubSeq(src, 1, i))
    /\ pc = "done" =>
          /\ result[1].allSenders = ExpectedSenders(src)
          /\ Names(result[1].participants) \subseteq Elements(result[1].allSenders)
          /\ \A k \in 1..Len(result[1].messages) :
                result[1].messages[k].sender \in Elements(result[1].allSenders)

C17_Witness ==
    /\ pc = "done"
    /\ myName = << <<"B">> >>
    /\ src = <<HiLine, CallLine, HiLine>>
    /\ result[1].allSenders = << <<"B">>, <<"A">> >>
    /\ result[1].participants = <<>>
    /\ Len(result[1].messages) = 3

(***************************************************************************)
(* Colors, read in SpecColor and SpecPeople.                               *)
(***************************************************************************)
\* the hash of lines 10-13 with the result of every step wrapped to a signed
\* 32-bit integer
RECURSIVE Hash32From(_, _, _)
Hash32From(name, k, hash) ==
    IF k > Len(name) THEN hash
    ELSE Hash32From(name, k + 1, ToInt32(HashStep(CharCode(name[k]), hash)))

\* the palette entry at abs(h) mod 13 of the 32-bit hash h of name
ReferenceColor(name) ==
    colors[AbsMod(Hash32From(name, 1, [hi |-> 0, lo |-> 0]), 13) + 1]

\* the hash of the code is a signed 32-bit integer after each character of name
StaysIn32Bits(name) ==
    \A k \in 1..Len(name) :
       LET h == HashFrom(SubSeq(name, 1, k), 1, [hi |-> 0, lo |-> 0])
       IN  h.hi >= 0 - 32768 /\ h.hi <= 32767

\* C18: the color of every name is the palette entry at abs(h) mod 13 of the
\* hash h wrapped to 32 bits at every step, also for the names whose running
\* hash leaves the 32-bit range.
C18_ColorIs32BitReference ==
    \A k \in 1..Len(participantsMap) :
       participantsMap[k].avatarColor = ReferenceColor(participantsMap[k].name)

\* C18 on the name Ferhat: the hash of the code is -2194151864, outside the
\* 32-bit range, and gives the palette entry 8; the 32-bit hash is 2100815432
\* and gives the entry 1.
C18_HashLeavesRange ==
    /\ pc = "done"
    /\ src[1].sender = <<"F", "e", "r", "h", "a", "t">>
    /\ ~StaysIn32Bits(src[1].sender)
    /\ result[1].participants[1].avatarColor = "bg-indigo-500"
    /\ ReferenceColor(src[1].sender) = "bg-orange-500"

\* C18 for the names whose running hash stays a signed 32-bit integer: the
\* color is that of the 32-bit hash.
C18_ColorWithin32Bits ==
    \A k \in 1..Len(participantsMap) :
       StaysIn32Bits(participantsMap[k].name) =>
          participantsMap[k].avatarColor = ReferenceColor(participantsMap[k].name)

\* the colors of the names of SpecPeople: the hash of A is 65, of B 66, of
\* the empty name 0, and abs(h) mod 13 is 0, 1 and 0
ColorOfName(name) ==
    IF name = <<"B">> THEN "bg-orange-500" ELSE "bg-red-500"

\* the state part of C19
ColorsMatchNames ==
    /\ \A k \in 1..Len(participantsMap) :
          /\ participantsMap[k].avatarColor = getRandomColor(participantsMap[k].name)
          /\ participantsMap[k].avatarColor = ColorOfName(participantsMap[k].name)
    /\ pc = "done" =>
          \A k \in 1..Len(result[1].participants) :
             /\ result[1].participants[k].avatarColor =
                   getRandomColor(result[1].participants[k].name)
             /\ result[1].participants[k].avatarColor =
                   ColorOfName(result[1].participants[k].name)

\* C19: avatarColor of every participant, during the pass and in the result
\* of every parse, is getRandomColor of its name, so a name has one color in
\* all parses and calls; and a step keeps the name and the avatarColor of
\* every entry the map already has.
C19_ColorFixedByName ==
    /\ []ColorsMatchNames
    /\ [][\A k \in 1..Len(participantsMap) :
             /\ Len(participantsMap') >= k
             /\ participantsMap'[k].name = participantsMap[k].name
             /\ participantsMap'[k].avatarColor = participantsMap[k].avatarColor]_vars

C19_Witness ==
    /\ pc = "done"
    /\ myName = <<>>
    /\ src = <<HiLine, HelloLine, EarlyLine>>
    /\ participantsMap[1].name = <<"B">> /\ participantsMap[1].avatarColor = "bg-orange-500"
    /\ participantsMap[2].name = <<"A">> /\ participantsMap[2].avatarColor = "bg-red-500"
    /\ participantsMap[2].lastMessage = EarlyLine.content

(***************************************************************************)
(* The archive handle, read in SpecArchive.                                *)
(***************************************************************************)
\* one iteration of the loop on the line raw with index idx, as a function of
\* the text and the self identity alone
RefStep(st, raw, idx, me) ==
    LET line == CleanLine(raw)
    IN  IF line = <<>> THEN st
        ELSE LET match == MsgStartMatch(line)
             IN  IF match # <<>>
                 THEN LET loc == StartLocals(match[1])
                          msg == NewMessage(idx, match[1], loc, me)
                      IN  [messages |-> IF st.current # <<>>
                                        THEN Append(st.messages, st.current[1])
                                        ELSE st.messages,
                           current  |-> <<msg>>,
                           people   |-> UpdateParticipants(st.people, msg),
                           senders  |-> SetAdd(st.senders, loc.senderName)]
                 ELSE [st EXCEPT !.current = Continue(st.current, line)]

\* the pass over the lines ls for the self identity me
RECURSIVE RefParse(_, _)
RefParse(ls, me) ==
    IF ls = <<>>
    THEN [messages |-> <<>>, current |-> <<>>, people |-> <<>>, senders |-> <<>>]
    ELSE RefStep(RefParse(SubSeq(ls, 1, Len(ls) - 1), me), ls[Len(ls)], Len(ls) - 1, me)

\* C20: whatever the archive handle, the records, the participant map and the
\* sender set are, after every line, those that the text and the self
\* identity alone determine, and so are messages, participants and allSenders
\* returned; the handle is never changed and zipFile returned is the handle
\* passed in.
C20_ArchiveNotRead ==
    \E r \in {RefParse(SubSeq(lines, 1, i), myName)} :
       /\ Records = r.messages \o r.current
       /\ participantsMap = r.people
       /\ sendersSet = r.senders
       /\ pc = "done" =>
             /\ result[1].messages = r.messages \o r.current
             /\ result[1].participants \in SortOutcomes(r.people)
             /\ result[1].allSenders = r.senders
             /\ result[1].zipFile = zipFile

C20_Witness ==
    /\ pc = "done"
    /\ zipFile = <<>>
    /\ src = <<PhotoLine, HelloLine>>
    /\ result[1].zipFile = <<>>
    /\ result[1].messages[1].attachmentFileName # <<>>
    /\ Len(result[1].participants) = 2

(***************************************************************************)
(* SpecTerm: the pass as a whole, on texts that hold malformed, unmatched  *)
(* and orphaned lines.                                                     *)
(***************************************************************************)
TermLines ==
    {HelloLine, MixedLine, AnonLine, WorldLine, PhraseLine, NearMissLine,
     EmptyLine, MarksLine}

\* the longest text of SpecTerm, in lines
MaxTermLines == 3

InitTerm ==
    \E ds \in SeqsUpTo(TermLines, MaxTermLines), me \in MyNames :
        Start(ds, me, <<>>)

SpecTerm == InitTerm /\ [][Next]_vars

\* the branch of the loop body that the line at index k (0-based) takes
Branch(k) ==
    IF CleanLine(lines[k + 1]) = <<>> THEN "skip"
    ELSE IF MsgStartMatch(CleanLine(lines[k + 1])) # <<>> THEN "start"
    ELSE IF currentMessage # <<>> THEN "append"
    ELSE "drop"

\* what the step of the loop on the line at index i leaves behind
StepOf(branch) ==
    CASE branch = "skip"   -> UNCHANGED <<currentMessage, messages>>
      [] branch = "start"  -> currentMessage' # <<>> /\ locals' # <<>>
      [] branch = "append" -> currentMessage' # <<>> /\ UNCHANGED messages
      [] branch = "drop"   -> UNCHANGED <<currentMessage, messages>>

StartIndexes(n) ==
    SelectSeq([k \in 1..n |-> k], LAMBDA k : src[k].kind = "start")

\* the number written in an id behind "msg-"
IdNumber(id) == DigitsValue(SubSeq(id, 5, Len(id)))

\* C22: at every point of the pass and in the result, the k-th record is the
\* record of the k-th start line of the input: its id is "msg-" and the
\* 0-based index of that line, its sender and first content line are that
\* line's; so the ids rise strictly along the list and are pairwise distinct,
\* and the list is in input order also when the timestamps are not.
C22_InputOrder ==
    \E idx \in {StartIndexes(i)} :
       /\ Len(Records) = Len(idx)
       /\ \A k \in 1..Len(idx) :
             /\ Records[k].id = <<"m", "s", "g", "-">> \o NumberToString(idx[k] - 1)
             /\ Records[k].sender = src[idx[k]].sender
             /\ Len(Records[k].content) >= Len(src[idx[k]].content)
             /\ SubSeq(Records[k].content, 1, Len(src[idx[k]].content))
                   = src[idx[k]].content
       /\ \A j, k \in 1..Len(Records) :
             j < k => /\ IdNumber(Records[j].id) < IdNumber(Records[k].id)
                      /\ Records[j].id # Records[k].id

\* three records returned in input order, the dates falling, with a line
\* between two of them that opens no record
C22_Witness ==
    /\ pc = "done"
    /\ src = <<AnonLine, WorldLine, HelloLine>>
    /\ Len(result[1].messages) = 2
    /\ result[1].messages[1].id = <<"m", "s", "g", "-", "0">>
    /\ result[1].messages[2].id = <<"m", "s", "g", "-", "2">>
    /\ result[1].messages[1].timestamp.valid
    /\ result[1].messages[2].timestamp.valid
    /\ ~DateGE(result[1].messages[2].timestamp, result[1].messages[1].timestamp)

\* the number of start lines among the first n lines of the text
StartsRead(n) == Cardinality({k \in 1..n : src[k].kind = "start"})

\* the number of entries of the list ms that carry the id of the record m
TimesIn(ms, m) == Cardinality({k \in 1..Len(ms) : ms[k].id = m.id})

\* C25: inside the loop the list messages is one record behind the start
\* lines read: with a message open it holds one record less than start lines
\* were read and the open message is not in it; with none open no start line
\* was read and the list is empty. A start line pushes the open message, and
\* nothing else, before it opens the new one; no other step of the loop
\* touches the list; the return pushes the open message, if any, so that it
\* is in the returned list exactly once, last, and the list has one record
\* for each start line.
C25_OneBehind ==
    /\ [](pc = "loop" =>
            IF currentMessage # <<>>
            THEN /\ Len(messages) = StartsRead(i) - 1
                 /\ TimesIn(messages, currentMessage[1]) = 0
            ELSE /\ StartsRead(i) = 0
                 /\ messages = <<>>)
    /\ [](pc = "done" =>
            /\ result[1].messages = messages
            /\ Len(messages) = StartsRead(Len(src))
            /\ currentMessage # <<>> =>
                  /\ TimesIn(messages, currentMessage[1]) = 1
                  /\ messages[Len(messages)] = currentMessage[1])
    /\ [][IF ReadsStartLine
          THEN /\ messages' = messages \o currentMessage
               /\ currentMessage' # <<>>
               /\ TimesIn(messages', currentMessage'[1]) = 0
          ELSE IF pc = "loop" /\ pc' = "done"
          THEN /\ messages' = messages \o currentMessage
               /\ currentMessage' = currentMessage
          ELSE messages' = messages]_vars

\* a message is open and two records are behind it in the list
C25_Witness ==
    /\ pc = "loop"
    /\ i = 3
    /\ src = <<HelloLine, AnonLine, MixedLine>>
    /\ Len(messages) = 2
    /\ currentMessage # <<>>
    /\ currentMessage[1].content = <<"M", "i", "x">>

(***************************************************************************)
(* SpecFrame: texts whose continuation lines hold a system phrase, an      *)
(* audio phrase or an attachment reference.                                *)
(***************************************************************************)
AttachLine ==
    OtherLine("text", <<>>,
              <<"I", "M", "G", "-", "2", ".", "p", "n", "g", " ", "(", "f",
              "i", "l", "e", " ", "a", "t", "t", "a", "c", "h", "e", "d",
              ")">>,
              <<>>)

CallTextLine ==
    OtherLine("text", <<" ">>,
              <<"S", "e", "s", "l", "i", " ", "a", "r", "a", "m", "a">>,
              <<"\r">>)

FrameLines ==
    {HelloLine, HiLine, CallLine, PhraseLine, AttachLine, CallTextLine, MarksLine}

\* the longest text of SpecFrame, in lines
MaxFrameLines == 3

InitFrame ==
    \E ds \in SeqsUpTo(FrameLines, MaxFrameLines), me \in MyNames :
        Start(ds, me, <<>>)

SpecFrame == InitFrame /\ [][Next]_vars

\* the record that the start line at index k (1-based) alone gives
RecordOfStartLine(k) ==
    LET m == MsgStartMatch(CleanLine(lines[k]))[1]
    IN  NewMessage(k - 1, m, StartLocals(m), myName)

\* C26: every record, open or pushed, is the record its start line alone
\* gives, but for the content, which begins with that line's content; a step
\* that appends a continuation line puts a line break and the line behind the
\* content of the open message and changes no other field of it, no pushed
\* record, not the sender set and not the participant map, whatever the
\* line holds.
C26_StartLineFixesRecord ==
    /\ [](\E idx \in {StartIndexes(i)} :
            /\ Len(Records) = Len(idx)
            /\ \A k \in 1..Len(idx) :
                  \E r \in {RecordOfStartLine(idx[k])} :
                     /\ [Records[k] EXCEPT !.content = r.content] = r
                     /\ SubSeq(Records[k].content, 1, Len(r.content)) = r.content)
    /\ [][pc = "loop" /\ i < Len(src) /\ src[i + 1].kind = "text"
             /\ currentMessage # <<>>
          => /\ currentMessage' =
                   << [currentMessage[1] EXCEPT
                         !.content = @ \o <<"\n">> \o src[i + 1].body] >>
             /\ UNCHANGED <<messages, sendersSet, participantsMap>>]_vars

\* a text record that ends with a call phrase and an attachment reference
C26_Witness ==
    /\ pc = "done"
    /\ src = <<HiLine, CallTextLine, AttachLine>>
    /\ Len(result[1].messages) = 1
    /\ result[1].messages[1].type = "text"
    /\ ~result[1].messages[1].isSystem
    /\ result[1].messages[1].attachmentFileName = <<>>
    /\ Includes(result[1].messages[1].content, <<".", "p", "n", "g">>)
    /\ Len(result[1].participants) = 1
    /\ MessageType(result[1].messages[1].content) # "text"

(***************************************************************************)
(* The fields of the date and the hour, read in SpecDate.                  *)
(***************************************************************************)
\* C28 as stated: for every start line the date token gives three numeric
\* fields: day, month and year are defined numbers and the timestamp built
\* from them is a date.
C28_ThreeNumericFields ==
    locals # <<>> =>
       /\ IsNumber(locals[1].day)
       /\ IsNumber(locals[1].month)
       /\ IsNumber(locals[1].year)
       /\ locals[1].timestamp.valid

\* C28 on 6/27.24: the split on "." gives the two pieces 6/27 and 24, so
\* the day is no number, the month is 24 and there is no year.
C28_TwoPieces ==
    /\ locals # <<>>
    /\ pc = "done"
    /\ src[1].d1.val = 6 /\ src[1].s1 = "/" /\ src[1].d2.val = 27
    /\ src[1].s2 = "." /\ src[1].y.val = 24
    /\ locals[1].day = NaN /\ locals[1].month = 24 /\ locals[1].year = Undefined
    /\ ~result[1].messages[1].timestamp.valid

\* C28 for the tokens written with one separator: three numbers and a date.
C28_SingleSeparatorFields ==
    (locals # <<>> /\ (Uniform(src[1], ".") \/ Uniform(src[1], "/"))) =>
       /\ locals[1].day \in {src[1].d1.val, src[1].d2.val}
       /\ locals[1].month \in {src[1].d1.val, src[1].d2.val}
       /\ locals[1].year = src[1].y.val
       /\ locals[1].timestamp.valid

\* the marker of the start line d is one of the afternoon
Afternoon(d) == d.mk \in { << <<"O_uml", "S">> >>, << <<"P", "M">> >> }

\* C29 as stated: for every start line with an hour token in 0..23 the
\* normalized hour is in 0..23, with or without a marker.
C29_HourInRange ==
    (locals # <<>> /\ src[1].h.val \in 0..23) => locals[1].hours \in 0..23

\* C29 on the hour token 13 after an afternoon marker: the hour is 25 and is
\* written so into rawDate.
C29_HourTwentyFive ==
    /\ locals # <<>>
    /\ pc = "done"
    /\ Afternoon(src[1])
    /\ src[1].h.val = 13
    /\ locals[1].hours = 25
    /\ Includes(result[1].messages[1].rawDate, <<" ", "2", "5", ":", "0", "5">>)

\* C29 for the other start lines: without an afternoon marker, or with an
\* hour token up to 12, the hour is in 0..23; with an afternoon marker and an
\* hour token of 13 to 23 it is the token plus 12.
C29_HourInRangeOtherwise ==
    (locals # <<>> /\ src[1].h.val \in 0..23) =>
       IF Afternoon(src[1]) /\ src[1].h.val > 12
       THEN locals[1].hours = src[1].h.val + 12
       ELSE locals[1].hours \in 0..23

(***************************************************************************)
(* The component App: what handleFileProcess does with the value           *)
(* parseChatFile returned, handleIdentitySelect and resetApp.              *)
(***************************************************************************)
parserVars == <<src, lines, myName, zipFile, i, currentMessage, messages,
                participantsMap, sendersSet, locals>>

appVars == <<step, chatData, error, potentialOwners, currentOwner>>

bubbleVars == <<props, mediaUrl, loadingMedia, effects, objectURLs>>

\* the message of the error thrown when the text has no sender
NoSenderError == "no sender found"

\* the cleanup of the effect: the last run is no longer active
Deactivate(effs) ==
    IF effs = <<>> THEN effs
    ELSE [effs EXCEPT ![Len(effs)].active = FALSE]

\* the cleanup of the effect: the URL the last run sees, if any, is revoked
Revoke(urls, effs) ==
    IF effs # <<>> /\ effs[Len(effs)].mediaUrl # <<>>
    THEN [urls EXCEPT !.revoked = @ \cup {effs[Len(effs)].mediaUrl[1]}]
    ELSE urls

\* the ChatBubble on the screen, if any, leaves it
Unmounted ==
    /\ props' = <<>>
    /\ mediaUrl' = <<>>
    /\ loadingMedia' = FALSE
    /\ effects' = IF props # <<>> THEN Deactivate(effects) ELSE effects
    /\ objectURLs' = IF props # <<>> THEN Revoke(objectURLs, effects) ELSE objectURLs

\* handleFileProcess from the call of parseChatFile on: the text was parsed
\* with no self identity; a result without senders is an error
HandleFileProcess ==
    /\ pc = "done"
    /\ myName = <<>>
    /\ step = "UPLOAD"
    /\ chatData = <<>>
    /\ error = <<>>
    /\ \E data \in {result[1]} :
          IF Len(data.allSenders) = 0
          THEN /\ error' = <<NoSenderError>>
               /\ UNCHANGED <<step, chatData, potentialOwners>>
          ELSE /\ chatData' = <<data>>
               /\ potentialOwners' = data.allSenders
               /\ step' = "SELECT_IDENTITY"
               /\ UNCHANGED error
    /\ UNCHANGED <<currentOwner, pc, result>>
    /\ UNCHANGED parserVars
    /\ UNCHANGED bubbleVars

\* HandleIdentitySelect without the filter of the participants
HandleIdentitySelectKeepsAll(name) ==
    /\ chatData # <<>>
    /\ currentOwner' = name
    /\ \E data \in {chatData[1]} :
          chatData' =
             << [data EXCEPT
                   !.messages = [k \in 1..Len(data.messages) |->
                                   [data.messages[k] EXCEPT
                                      !.isMe = (data.messages[k].sender = name)]]] >>
    /\ step' = "CHAT"
    /\ UNCHANGED <<error, potentialOwners, pc, result>>
    /\ UNCHANGED parserVars
    /\ UNCHANGED bubbleVars

\* handleIdentitySelect(name)
HandleIdentitySelect(name) ==
    /\ chatData # <<>>
    /\ currentOwner' = name
    /\ \E data \in {chatData[1]} :
          chatData' =
             << [data EXCEPT
                   !.messages = [k \in 1..Len(data.messages) |->
                                   [data.messages[k] EXCEPT
                                      !.isMe = (data.messages[k].sender = name)]],
                   !.participants = SelectSeq(data.participants,
                                              LAMBDA p : p.name # name)] >>
    /\ step' = "CHAT"
    /\ UNCHANGED <<error, potentialOwners, pc, result>>
    /\ UNCHANGED parserVars
    /\ UNCHANGED bubbleVars

\* a click on one of the buttons of the identity screen
SelectIdentity ==
    /\ step = "SELECT_IDENTITY"
    /\ \E k \in 1..Len(potentialOwners) : HandleIdentitySelect(potentialOwners[k])

\* resetApp, the onBack of the chat screen; the chat screen and with it the
\* ChatBubble leave the screen
ResetApp ==
    /\ step = "CHAT"
    /\ chatData # <<>>
    /\ chatData' = <<>>
    /\ step' = "UPLOAD"
    /\ potentialOwners' = <<>>
    /\ currentOwner' = <<>>
    /\ error' = <<>>
    /\ Unmounted
    /\ UNCHANGED <<pc, result>>
    /\ UNCHANGED parserVars

(***************************************************************************)
(* The component ChatBubble: its two states, its effect with the           *)
(* dependencies attachmentFileName and zipFile, and the promise of the     *)
(* blob. An archive is the list of its paths, Object.keys(zipFile.files),  *)
(* in the order of the archive. An object URL is named by the number of    *)
(* the effect run whose promise made it.                                   *)
(***************************************************************************)
\* String.prototype.endsWith
EndsWith(s, suffix) ==
    /\ Len(suffix) <= Len(s)
    /\ SubSeq(s, Len(s) - Len(suffix) + 1, Len(s)) = suffix

\* the test of files.find: the path ends with the name, as written or with
\* both in lower case
Matches(f, name) ==
    EndsWith(f, name) \/ EndsWith(ToLowerCase(f), ToLowerCase(name))

\* files.find with that test: the first path that passes, <<>> for undefined
FindMatch(files, name) ==
    LET hits == {k \in 1..Len(files) : Matches(files[k], name)}
    IN  IF hits = {} THEN <<>>
        ELSE <<files[CHOOSE k \in hits : \A j \in hits : k <= j]>>

\* the condition of the effect: there is something to load
MustLoad(p, url) == p.attachmentFileName # <<>> /\ p.zipFile # <<>> /\ url = <<>>

\* one run of the effect, rendered with the props p and the state url
RunEffect(p, url) ==
    LET match == IF MustLoad(p, url)
                 THEN FindMatch(p.zipFile[1], p.attachmentFileName[1])
                 ELSE <<>>
    IN  [active   |-> TRUE,
         mediaUrl |-> url,
         name     |-> p.attachmentFileName,
         files    |-> p.zipFile,
         match    |-> match,
         promise  |-> IF match # <<>> THEN "pending" ELSE "none"]

\* loadingMedia after that run
LoadingAfter(p, url, loading) ==
    IF MustLoad(p, url)
    THEN FindMatch(p.zipFile[1], p.attachmentFileName[1]) # <<>>
    ELSE loading

\* the props of the ChatBubble of the k-th message of the chat
PropsOf(k) ==
    [attachmentFileName |-> chatData[1].messages[k].attachmentFileName,
     zipFile            |-> chatData[1].zipFile]

\* the most runs of the effect in one behaviour
MaxEffects == 3

\* a ChatBubble comes onto the screen for the k-th message
Mount ==
    /\ step = "CHAT"
    /\ chatData # <<>>
    /\ props = <<>>
    /\ Len(effects) < MaxEffects
    /\ \E k \in 1..Len(chatData[1].messages) :
       \E p \in {PropsOf(k)} :
          /\ props' = <<p>>
          /\ mediaUrl' = <<>>
          /\ loadingMedia' = LoadingAfter(p, <<>>, FALSE)
          /\ effects' = Append(effects, RunEffect(p, <<>>))
    /\ UNCHANGED <<objectURLs, pc, result>>
    /\ UNCHANGED parserVars
    /\ UNCHANGED appVars

\* the ChatBubble on the screen is rendered for another message and a
\* dependency of the effect differs: the cleanup of the last run, then a new
\* run
ChangeDeps ==
    /\ step = "CHAT"
    /\ chatData # <<>>
    /\ props # <<>>
    /\ Len(effects) < MaxEffects
    /\ \E k \in 1..Len(chatData[1].messages) :
       \E p \in {PropsOf(k)} :
          /\ p # props[1]
          /\ props' = <<p>>
          /\ loadingMedia' = LoadingAfter(p, mediaUrl, loadingMedia)
          /\ effects' = Append(Deactivate(effects), RunEffect(p, mediaUrl))
          /\ objectURLs' = Revoke(objectURLs, effects)
    /\ UNCHANGED <<mediaUrl, pc, result>>
    /\ UNCHANGED parserVars
    /\ UNCHANGED appVars

\* the promise of the blob is fulfilled: the then-callback
ResolveBlob ==
    /\ \E e \in 1..Len(effects) :
          /\ effects[e].promise = "pending"
          /\ effects' = [effects EXCEPT ![e].promise = "resolved"]
          /\ IF effects[e].active
             THEN /\ objectURLs' = [objectURLs EXCEPT !.created = @ \cup {e}]
                  /\ mediaUrl' = <<e>>
                  /\ loadingMedia' = FALSE
             ELSE UNCHANGED <<objectURLs, mediaUrl, loadingMedia>>
    /\ UNCHANGED <<props, pc, result>>
    /\ UNCHANGED parserVars
    /\ UNCHANGED appVars

\* the promise of the blob is rejected: the catch-callback
RejectBlob ==
    /\ \E e \in 1..Len(effects) :
          /\ effects[e].promise = "pending"
          /\ effects' = [effects EXCEPT ![e].promise = "rejected"]
          /\ loadingMedia' = IF effects[e].active THEN FALSE ELSE loadingMedia
    /\ UNCHANGED <<props, mediaUrl, objectURLs, pc, result>>
    /\ UNCHANGED parserVars
    /\ UNCHANGED appVars

\* the ChatBubble leaves the screen while the chat stays: the cleanup of the
\* last run
Unmount ==
    /\ props # <<>>
    /\ Unmounted
    /\ UNCHANGED <<pc, result>>
    /\ UNCHANGED parserVars
    /\ UNCHANGED appVars

NextApp ==
    \/ Next
    \/ HandleFileProcess
    \/ SelectIdentity
    \/ ResetApp
    \/ Mount
    \/ ChangeDeps
    \/ ResolveBlob
    \/ RejectBlob
    \/ Unmount

(***************************************************************************)
(* SpecApp: a text of up to MaxAppLines lines, uploaded alone or in an     *)
(* archive, is parsed with no self identity, an identity is picked, and    *)
(* one ChatBubble at a time is on the screen.                              *)
(***************************************************************************)
UpperPhotoPath == <<"I", "M", "G", "-", "1", ".", "j", "p", "g">>

LowerPhotoPath == <<"i", "m", "g", "-", "1", ".", "j", "p", "g">>

ChatPath == <<"_", "c", "h", "a", "t", ".", "t", "x", "t">>

\* the archives: lists of paths, each path once; the chat text, without
\* which handleFileProcess does not come to parse, is listed last
Archives ==
    LET paths == {UpperPhotoPath, LowerPhotoPath, ChatPath}
    IN  UNION { { a \in [1..n -> paths] :
                    /\ \A j, k \in 1..n : j # k => a[j] # a[k]
                    /\ a[n] = ChatPath } : n \in 1..3 }

\* zipInstance: null for a text file, else the archive
AppZipFiles == { <<>> } \cup { <<a>> : a \in Archives }

AppLines == {PhotoLine, HelloLine, CallLine, WorldLine, MarksLine}

\* the longest text of SpecApp, in lines
MaxAppLines == 2

InitApp ==
    \E ds \in SeqsUpTo(AppLines, MaxAppLines), zip \in AppZipFiles :
        Start(ds, <<>>, zip)

SpecApp == InitApp /\ [][NextApp]_vars

(***************************************************************************)
(* The identity selection, read in SpecApp: result still holds what        *)
(* parseChatFile returned.                                                 *)
(***************************************************************************)
\* the entries of the sequence s other than those named name, in their order
Without(s, name) ==
    LET keep == {k \in 1..Len(s) : s[k].name # name}
        nth(n) == CHOOSE k \in keep : Cardinality({j \in keep : j < k}) = n - 1
    IN  [n \in 1..Cardinality(keep) |-> s[nth(n)]]

\* C24: once an identity is picked from the parsed chat data, the step is
\* CHAT, currentOwner is the picked name, and the chat data are the parsed
\* ones but for two things: every message has isMe true exactly when its
\* sender is the picked name, and the participants are the parsed ones
\* without the entry of that name, in the same order. The number and order of
\* the messages, their other fields, allSenders and the archive handle are
\* the parsed ones. The step is CHAT only after an identity was picked.
C24_IdentitySelected ==
    step = "CHAT" =>
       /\ chatData # <<>>
       /\ \E data \in {chatData[1]}, parsed \in {result[1]} :
             /\ \E k \in 1..Len(parsed.allSenders) : currentOwner = parsed.allSenders[k]
             /\ Len(data.messages) = Len(parsed.messages)
             /\ \A k \in 1..Len(data.messages) :
                   /\ data.messages[k].isMe <=> data.messages[k].sender = currentOwner
                   /\ [data.messages[k] EXCEPT !.isMe = FALSE]
                         = [parsed.messages[k] EXCEPT !.isMe = FALSE]
             /\ \A k \in 1..Len(data.participants) :
                   data.participants[k].name # currentOwner
             /\ data.participants = Without(parsed.participants, currentOwner)
             /\ data.allSenders = parsed.allSenders
             /\ data.zipFile = parsed.zipFile
             /\ data.zipFile = zipFile

\* B is picked in a chat of A and B: A's message is no longer and B's is now
\* a message of the owner, and of the two participants A is left
C24_Witness ==
    /\ step = "CHAT"
    /\ src = <<HelloLine, PhotoLine>>
    /\ zipFile # <<>>
    /\ currentOwner = <<"B">>
    /\ Len(result[1].participants) = 2
    /\ Len(chatData[1].participants) = 1
    /\ chatData[1].participants[1].name = <<"A">>
    /\ ~chatData[1].messages[1].isMe
    /\ chatData[1].messages[2].isMe
    /\ ~result[1].messages[2].isMe

(***************************************************************************)
(* The object URLs of the ChatBubble, read in SpecApp.                     *)
(***************************************************************************)
\* C23 as stated: once the ChatBubble has left the screen, every URL made
\* with createObjectURL has been given back with revokeObjectURL.
C23_UrlsReleased ==
    props = <<>> => objectURLs.created \subseteq objectURLs.revoked

\* C23 on a bubble that is mounted, gets its blob and is unmounted: the
\* cleanup belongs to the run of the mount, which saw mediaUrl null, so the
\* URL made in between is never revoked.
C23_LeakedUrl ==
    /\ props = <<>>
    /\ Len(effects) = 1
    /\ effects[1].promise = "resolved"
    /\ effects[1].mediaUrl = <<>>
    /\ ~effects[1].active
    /\ objectURLs.created = {1}
    /\ objectURLs.revoked = {}

\* C23, what the cleanup does release: only URLs that were made are revoked,
\* a run that is no longer active makes none, and a URL is revoked exactly
\* when a dependency changed after it was made, so that a later run of the
\* effect saw it, and that run was cleaned up in turn.
C23_ReleasedAfterRerun ==
    /\ objectURLs.revoked \subseteq objectURLs.created
    /\ \A e \in objectURLs.created :
          /\ e \in 1..Len(effects)
          /\ effects[e].promise = "resolved"
          /\ e \in objectURLs.revoked <=>
                \E f \in (e + 1)..Len(effects) :
                   effects[f].mediaUrl = <<e>> /\ ~effects[f].active
    /\ \A e \in 1..Len(effects) :
          (effects[e].promise = "pending" /\ ~effects[e].active)
             => e \notin objectURLs.created

(***************************************************************************)
(* The archive entry a ChatBubble resolves, read in SpecApp from the runs  *)
(* of the effect that looked one up.                                       *)
(***************************************************************************)
\* the runs of the effect that searched the archive
Lookups == {e \in 1..Len(effects) : MustLoad([attachmentFileName |-> effects[e].name,
                                              zipFile |-> effects[e].files],
                                             effects[e].mediaUrl)}

\* the positions of the paths of the run e that end with the name as written
ExactAt(e) ==
    {k \in 1..Len(effects[e].files[1]) :
        EndsWith(effects[e].files[1][k], effects[e].name[1])}

\* the positions of the paths that end with the name when case is ignored
AnyCaseAt(e) ==
    {k \in 1..Len(effects[e].files[1]) :
        EndsWith(ToLowerCase(effects[e].files[1][k]), ToLowerCase(effects[e].name[1]))}

\* C27 as stated: when the archive holds a path that ends with the file name
\* as written, the path resolved ends with the file name as written,
\* whatever the order of the archive.
C27_ExactMatchPreferred ==
    \A e \in Lookups :
       ExactAt(e) # {} =>
          /\ effects[e].match # <<>>
          /\ EndsWith(effects[e].match[1], effects[e].name[1])

\* C27 on an archive that lists img-1.jpg before IMG-1.jpg: for the
\* attachment IMG-1.jpg the path resolved is img-1.jpg.
C27_LowerCaseFirst ==
    /\ Len(effects) >= 1
    /\ effects[1].name = <<UpperPhotoPath>>
    /\ effects[1].files = << <<LowerPhotoPath, UpperPhotoPath, ChatPath>> >>
    /\ effects[1].match = <<LowerPhotoPath>>
    /\ effects[1].promise = "resolved"
    /\ mediaUrl = <<1>>

\* C27, what the lookup does: the path resolved is the first of the archive
\* that ends with the file name when case is ignored; none is resolved
\* exactly when there is no such path; and it ends with the file name as
\* written exactly when every path that differs from it in case only comes
\* behind one that does not.
C27_FirstInAnyCase ==
    \A e \in Lookups :
       IF AnyCaseAt(e) = {}
       THEN effects[e].match = <<>> /\ effects[e].promise = "none"
       ELSE \E first \in AnyCaseAt(e) :
               /\ \A k \in AnyCaseAt(e) : first <= k
               /\ effects[e].match = <<effects[e].files[1][first]>>
               /\ effects[e].promise # "none"
               /\ (\A k \in AnyCaseAt(e) \ ExactAt(e) : \E x \in ExactAt(e) : x < k)
                     <=> EndsWith(effects[e].match[1], effects[e].name[1])

====
